---- MODULE Spec2Model ----
(***************************************************************************)
(* Model of the press-release pipeline: list filter/sort (scraper.js),     *)
(* release ids (utils.js), the Webflow publisher (webflow.js) and the      *)
(* run loop (index.js).                                                    *)
(*                                                                         *)
(* Strings are sequences of one-character strings.  Instants are hours     *)
(* since 2025-01-01T00:00Z; the host's time zone is hostOffset hours east  *)
(* of UTC.                                                                 *)
(***************************************************************************)
EXTENDS Integers, Sequences, FiniteSets, TLC

VARIABLES
  hostOffset,   \* time-zone offset of the host, hours east of UTC
  today,        \* UTC day number of "now" (new Date())
  kpc,          \* release-id scenario: position
  kin,          \* release-id scenario: the two (title, date) inputs
  kout,         \* release-id scenario: keys returned so far
  lpc,          \* listing scenario: position
  rows,         \* listing scenario: records parsed from the page, page order
  cutoff,       \* config.euronext.onlyAfterDate
  recent,       \* what fetchPressReleaseList returned
  cfgPublish,   \* config.webflow.publishImmediately
  remote,       \* items of the CMS collection, in creation order
  pressReleases, \* createItems: its argument
  results,      \* createItems: {created, skipped, errors}
  cpc,          \* createItems: the request it is about to issue
  idx,          \* createItems: index of the record being processed
  attempt,      \* createItem: i of its retry loop
  pubAttempt,   \* publishItem: i of its retry loop
  createdItem,  \* createItem: response.data of the last successful POST
  failures,     \* number of failed requests and crashes so far
  callBase,     \* history: Len(remote) when createItems was called
  checked,      \* history: indices whose existence check was issued
  calls,        \* publisher scenario: calls of createItems started
  firstResults, \* publisher scenario: what the first call returned
  rpc,          \* run: position in run()
  disk,         \* data/processed.json: the persisted store, or Absent
  processedData, \* run: the store loaded at its start
  loadOk,       \* run: whether loadProcessedData read the file
  allReleases,  \* run: what getLatestReleases returned
  exitCode,     \* exit status of the last run that ended
  lost,         \* history: records with items created by a run that ended
                \* without saving the store
  savedKeys,    \* history: ids of created records that were saved
  unread,       \* history: a load fell back to the default store although
                \* the file was there
  variant,      \* extraction: which fetchPressReleaseContent is installed
  elist,        \* extraction: latestReleases of getLatestReleases
  eidx,         \* extraction: index of the record being extracted
  epc,          \* extraction: the await fetchPressReleaseContent is at
  eAttempt,     \* extraction: i of the retry loop (direct variant)
  browser,      \* extraction: the instance of the current try
  open,         \* extraction: instances launched and not closed
  pending,      \* extraction: what page.evaluate returned
  withContent,  \* extraction: releasesWithContent
  efailures,    \* extraction: failed browser operations so far
  hstore,       \* store history: the persisted store
  hclock,       \* store history: runs ended so far, used as the time stamp
  hlog,         \* store history: every error entry recorded, oldest first
  mpc,          \* main(): position of the process
  credentials,  \* main(): the WEBFLOW_* environment variables are all set
  testMode,     \* main(): --test or TEST_MODE=true
  hour,         \* main(): new Date().getHours(), the host's local hour
  spc,          \* store file: position of the save-then-load sequence
  sdata,        \* store file: the value handed to saveProcessedData
  sfile,        \* store file: data/processed.json
  sloaded,      \* store file: what loadProcessedData returned
  ppc,          \* list parser: position of the selector loop
  pdoc,         \* list parser: the row-like elements of the page, in order
  psel,         \* list parser: index of the selector the loop is at
  parsed,       \* list parser: the array releases, the records pushed so far
  origins,      \* list parser: for each record, the element it was pushed for
  foundReleases, \* list parser: the flag of the same name
  tried,        \* list parser: the selectors evaluated so far
  tpc,          \* retry scenario: position
  ti,           \* retry: the loop index i
  attempts,     \* retry: the attempts argument
  delay,        \* retry: the delay argument, ms
  inFlight,     \* retry: invocations of fn started and not settled
  tlog,         \* retry: the calls, outcomes and sleeps so far
  tresult,      \* retry: what retry returned or threw
  qpc,          \* run pipeline scenario: position
  qn,           \* pipeline: number of records of the sliced listing
  qi,           \* pipeline: index of the record at hand
  qkept,        \* pipeline: releasesWithContent, as record numbers
  qnew,         \* pipeline: newReleases, as record numbers
  qseen,        \* pipeline: records whose id is in the store
  qremote,      \* pipeline: records with an item in the collection
  qfly,         \* pipeline: external calls started and not settled
  qlog,         \* pipeline: the external calls and delays so far
  wpc,          \* slug scenario: position
  wvariant,     \* slug scenario: which copy of the Webflow client runs
  wrelease,     \* slug scenario: the record
  witems,       \* slug scenario: the items of the collection
  wfound,       \* slug scenario: what itemExists returned
  hpc,          \* clean scenario: position
  html,         \* clean scenario: the HTML string
  once,         \* clean scenario: cleanHtmlContent(html)
  twice,        \* clean scenario: cleanHtmlContent of that
  vpc,          \* repeated-runs scenario: position of the run
  vtest,        \* repeated runs: test mode
  vlist,        \* repeated runs: what fetchPressReleaseList returns
  vbatch,       \* repeated runs: newReleases of the run
  vi,           \* repeated runs: index of the record createItems is at
  vres,         \* repeated runs: results of createItems
  vstore,       \* repeated runs: the store file
  vremote       \* repeated runs: ids of the records with a remote item

keyVars == <<kpc, kin, kout>>
listVars == <<lpc, rows, cutoff, recent>>
pubVars == <<remote, pressReleases, results, cpc, idx, attempt, pubAttempt,
             createdItem, failures, callBase, checked>>
twiceVars == <<calls, firstResults>>
runVars == <<rpc, disk, processedData, loadOk, allReleases, exitCode,
             lost, savedKeys, unread>>
extVars == <<variant, elist, eidx, epc, eAttempt, browser, open, pending,
             withContent, efailures>>
histVars == <<hstore, hclock, hlog>>
mainVars == <<mpc, credentials, testMode, hour>>
storeVars == <<spc, sdata, sfile, sloaded>>
parseVars == <<ppc, pdoc, psel, parsed, origins, foundReleases, tried>>
retryVars == <<tpc, ti, attempts, delay, inFlight, tlog, tresult>>
pipeVars == <<qpc, qn, qi, qkept, qnew, qseen, qremote, qfly, qlog>>
slugVars == <<wpc, wvariant, wrelease, witems, wfound>>
cleanVars == <<hpc, html, once, twice>>
evVars == <<vpc, vtest, vlist, vbatch, vi, vres, vstore, vremote>>
vars == <<hostOffset, today, kpc, kin, kout, lpc, rows, cutoff, recent,
          cfgPublish, remote, pressReleases, results, cpc, idx, attempt,
          pubAttempt, createdItem, failures, callBase, checked, calls,
          firstResults, rpc, disk, processedData, loadOk, allReleases,
          exitCode, lost, savedKeys, unread, variant, elist, eidx, epc,
          eAttempt, browser, open, pending, withContent, efailures, hstore,
          hclock, hlog,
          mpc, credentials, testMode, hour, spc, sdata, sfile, sloaded,
          ppc, pdoc, psel, parsed, origins, foundReleases, tried,
          tpc, ti, attempts, delay, inFlight, tlog, tresult,
          qpc, qn, qi, qkept, qnew, qseen, qremote, qfly, qlog,
          wpc, wvariant, wrelease, witems, wfound,
          hpc, html, once, twice,
          vpc, vtest, vlist, vbatch, vi, vres, vstore, vremote>>

----------------------------------------------------------------------------
(* Bounds *)

MaxSuffix == 2      \* varying characters at the end of a title
MaxDays == 1        \* how many times "now" moves to the next UTC day
MaxRows == 2        \* records on the listing page, records in a batch
MaxHistRuns == 6     \* runs in the store-history scenario
MaxFailures == 2    \* failed requests and crashes in one behaviour
RetryAttempts == 2  \* config.webflow.retryAttempts

HostOffsets == {0 - 5, 0, 2}

----------------------------------------------------------------------------
(* Characters and strings *)

Digits == <<"0", "1", "2", "3", "4", "5", "6", "7", "8", "9">>
DigitSet == {Digits[i] : i \in 1..10}
LowerLetters ==
  {"a", "b", "c", "d", "e", "f", "g", "h", "i", "j", "k", "l", "m",
   "n", "o", "p", "q", "r", "s", "t", "u", "v", "w", "x", "y", "z"}
UpperPairs ==
  {<<"A", "a">>, <<"C", "c">>, <<"E", "e">>, <<"J", "j">>, <<"Q", "q">>,
   <<"S", "s">>, <<"T", "t">>, <<"U", "u">>, <<"X", "x">>}

IsDigit(c) == c \in DigitSet
DigitVal(c) == CHOOSE n \in 0..9 : Digits[n + 1] = c

\* String.prototype.toLowerCase, one character
ToLower(c) ==
  IF \E p \in UpperPairs : p[1] = c
    THEN (CHOOSE p \in UpperPairs : p[1] = c)[2]
    ELSE c

ToLowerCase(s) == [i \in 1..Len(s) |-> ToLower(s[i])]

\* String.prototype.substring(0, n)
Substring0(s, n) == IF Len(s) <= n THEN s ELSE SubSeq(s, 1, n)

Repeat(c, n) == [i \in 1..n |-> c]

RECURSIVE Concat(_)
Concat(ss) == IF ss = <<>> THEN <<>> ELSE Head(ss) \o Concat(Tail(ss))

IsSpace(c) == c \in {" ", "\n"}

\* String.prototype.trim
RECURSIVE TrimLeft(_)
TrimLeft(s) ==
  IF s # <<>> /\ IsSpace(Head(s)) THEN TrimLeft(Tail(s)) ELSE s
RECURSIVE TrimRight(_)
TrimRight(s) ==
  IF s # <<>> /\ IsSpace(s[Len(s)])
    THEN TrimRight(SubSeq(s, 1, Len(s) - 1))
    ELSE s
Trim(s) == TrimRight(TrimLeft(s))

\* the elements of a sequence
SeqRange(q) == {q[i] : i \in 1..Len(q)}

Includes(s, c) == \E i \in 1..Len(s) : s[i] = c

\* s.split(c)[0]
SplitFirst(s, c) ==
  IF Includes(s, c)
    THEN SubSeq(s, 1, (CHOOSE i \in 1..Len(s) :
                         s[i] = c /\ \A j \in 1..(i - 1) : s[j] # c) - 1)
    ELSE s

----------------------------------------------------------------------------
(* Dates: new Date(text), toISOString, local calendar fields *)

CumDays == <<0, 31, 59, 90, 120, 151, 181, 212, 243, 273, 304, 334, 365>>
MonthNames ==
  << <<"J", "a", "n">>, <<"F", "e", "b">>, <<"M", "a", "r">>,
     <<"A", "p", "r">>, <<"M", "a", "y">>, <<"J", "u", "n">>,
     <<"J", "u", "l">>, <<"A", "u", "g">>, <<"S", "e", "p">>,
     <<"O", "c", "t">>, <<"N", "o", "v">>, <<"D", "e", "c">> >>

\* day number of a calendar date of 2025 or 2026 (neither is a leap year)
DayNum(y, m, d) == 365 * (y - 2025) + CumDays[m] + (d - 1)

YearOf(n) == 2025 + (n \div 365)
MonthOf(n) == CHOOSE m \in 1..12 :
                CumDays[m] <= n % 365 /\ n % 365 < CumDays[m + 1]
DateOf(n) == (n % 365) - CumDays[MonthOf(n)] + 1

Num2(s, i) == 10 * DigitVal(s[i]) + DigitVal(s[i + 1])
Num4(s, i) == 100 * Num2(s, i) + Num2(s, i + 2)
AllDigits(s, is) == \A i \in is : IsDigit(s[i])

Pad2(n) == <<Digits[(n \div 10) + 1], Digits[(n % 10) + 1]>>
Pad4(n) == Pad2(n \div 100) \o Pad2(n % 100)

NaN == [ok |-> FALSE, t |-> 0]
Instant(t) == [ok |-> TRUE, t |-> t]

\* "YYYY-MM-DD": the date-only ISO form, midnight UTC
IsIsoDate(s) ==
  /\ Len(s) = 10
  /\ s[5] = "-" /\ s[8] = "-"
  /\ AllDigits(s, {1, 2, 3, 4, 6, 7, 9, 10})
  /\ Num4(s, 1) \in 2025..2026
  /\ Num2(s, 6) \in 1..12
  /\ Num2(s, 9) \in 1..(CumDays[Num2(s, 6) + 1] - CumDays[Num2(s, 6)])

\* "DD Mon YYYY": the legacy form, midnight local time
IsDmyDate(s) ==
  /\ Len(s) = 11
  /\ s[3] = " " /\ s[7] = " "
  /\ AllDigits(s, {1, 2, 8, 9, 10, 11})
  /\ \E m \in 1..12 : MonthNames[m] = SubSeq(s, 4, 6)
  /\ Num4(s, 8) \in 2025..2026
  /\ Num2(s, 1) >= 1

DmyMonth(s) == CHOOSE m \in 1..12 : MonthNames[m] = SubSeq(s, 4, 6)

\* new Date(s) on a host `off` hours east of UTC.  Any other text of the
\* model's domain (a trailing time with a zone name such as CEST, a word)
\* is an Invalid Date.
ParseDate(s, off) ==
  IF IsIsoDate(s)
    THEN Instant(24 * DayNum(Num4(s, 1), Num2(s, 6), Num2(s, 9)))
  ELSE IF IsDmyDate(s)
    THEN Instant(24 * DayNum(Num4(s, 8), DmyMonth(s), Num2(s, 1)) - off)
  ELSE NaN

\* d.toISOString().split('T')[0]
IsoDay(n) == Pad4(YearOf(n)) \o <<"-">> \o Pad2(MonthOf(n)) \o <<"-">>
             \o Pad2(DateOf(n))
ToISODate(t) == IsoDay(t \div 24)

\* local calendar day of an instant
LocalDay(t, off) == (t + off) \div 24

----------------------------------------------------------------------------
(* Date texts of the model's domain *)

IsoText(y, m, d) == Pad4(y) \o <<"-">> \o Pad2(m) \o <<"-">> \o Pad2(d)
DmyText(y, m, d) == Pad2(d) \o <<" ">> \o MonthNames[m] \o <<" ">> \o Pad4(y)
\* the listing's format: "27 Jun 2025\n07:45 CEST"
ListingText(y, m, d) ==
  DmyText(y, m, d) \o <<"\n", "0", "7", ":", "4", "5", " ", "C", "E", "S", "T">>
UnknownText == <<"U", "n", "k", "n", "o", "w", "n">>

\* UTC day number of "now" when a scenario starts: 2025-06-30
FirstDay == DayNum(2025, 6, 30)

----------------------------------------------------------------------------
(* utils.js: generateReleaseId *)

KeyMaxLen == 100

CleanTitle(title) ==
  LET low == ToLowerCase(title)
  IN [i \in 1..Len(low) |->
        IF low[i] \in LowerLetters \cup DigitSet THEN low[i] ELSE "-"]

\* dateStr of generateReleaseId; nowDay is the UTC day of new Date()
ReleaseDateStr(date, off, nowDay) ==
  LET parsedDate == ParseDate(date, off)
  IN IF ~parsedDate.ok THEN IsoDay(nowDay) ELSE ToISODate(parsedDate.t)

UntruncatedId(title, date, off, nowDay) ==
  ReleaseDateStr(date, off, nowDay) \o <<"-">> \o CleanTitle(title)

NoDateReleaseId(title, date, off, nowDay) ==
  Substring0(CleanTitle(title), KeyMaxLen)

GenerateReleaseId(title, date, off, nowDay) ==
  Substring0(UntruncatedId(title, date, off, nowDay), KeyMaxLen)

----------------------------------------------------------------------------
(* Release-id scenario: two inputs keyed at one time, the first keyed      *)
(* again later.                                                            *)

TitlePad == KeyMaxLen - 12
TitleAlphabet == {"a", "A", " "}
RECURSIVE SeqsUpTo(_, _)
SeqsUpTo(S, n) ==
  IF n = 0 THEN {<<>>}
  ELSE LET shorter == SeqsUpTo(S, n - 1)
       IN shorter \cup {Append(s, c) : s \in shorter, c \in S}
KeyTitles == {Repeat("x", TitlePad) \o s : s \in SeqsUpTo(TitleAlphabet, MaxSuffix)}
KeyDates == {IsoText(2025, 6, 27), DmyText(2025, 6, 27), DmyText(2025, 6, 28),
             ListingText(2025, 6, 27)}
KeyInputs == [title : KeyTitles, date : KeyDates]

NoKey == <<>>
NoInput == [title |-> <<>>, date |-> <<>>]
KeyIdle == /\ kpc = "off"
           /\ kin = <<>>
           /\ kout = <<>>

PubIdle ==
  /\ cfgPublish = FALSE
  /\ remote = <<>>
  /\ pressReleases = <<>>
  /\ results = <<>>
  /\ cpc = "off"
  /\ idx = 0
  /\ attempt = 0
  /\ pubAttempt = 0
  /\ createdItem = <<>>
  /\ failures = 0
  /\ callBase = 0
  /\ checked = <<>>
  /\ calls = 0
  /\ firstResults = <<>>
RunIdle ==
  /\ rpc = "off"
  /\ disk = <<>>
  /\ processedData = <<>>
  /\ loadOk = FALSE
  /\ allReleases = <<>>
  /\ exitCode = 0
  /\ lost = {}
  /\ savedKeys = {}
  /\ unread = FALSE
ExtIdle ==
  /\ variant = "none"
  /\ elist = <<>>
  /\ eidx = 0
  /\ epc = "off"
  /\ eAttempt = 0
  /\ browser = "none"
  /\ open = 0
  /\ pending = "none"
  /\ withContent = <<>>
  /\ efailures = 0
HistIdle ==
  /\ hstore = <<>>
  /\ hclock = 0
  /\ hlog = <<>>
MainIdle ==
  /\ mpc = "off"
  /\ credentials = TRUE
  /\ testMode = FALSE
  /\ hour = 0
StoreIdle ==
  /\ spc = "off"
  /\ sdata = <<>>
  /\ sfile = <<>>
  /\ sloaded = <<>>
ParseIdle ==
  /\ ppc = "off"
  /\ pdoc = <<>>
  /\ psel = 0
  /\ parsed = <<>>
  /\ origins = <<>>
  /\ foundReleases = FALSE
  /\ tried = <<>>
RetryIdle ==
  /\ tpc = "off"
  /\ ti = 0
  /\ attempts = 0
  /\ delay = 0
  /\ inFlight = 0
  /\ tlog = <<>>
  /\ tresult = [kind |-> "none", arg |-> 0]
PipeIdle ==
  /\ qpc = "off"
  /\ qn = 0
  /\ qi = 0
  /\ qkept = <<>>
  /\ qnew = <<>>
  /\ qseen = {}
  /\ qremote = {}
  /\ qfly = 0
  /\ qlog = <<>>
SlugIdle ==
  /\ wpc = "off"
  /\ wvariant = "none"
  /\ wrelease = <<>>
  /\ witems = <<>>
  /\ wfound = FALSE
CleanIdle ==
  /\ hpc = "off"
  /\ html = <<>>
  /\ once = <<>>
  /\ twice = <<>>
EvIdle ==
  /\ vpc = "off"
  /\ vtest = FALSE
  /\ vlist = <<>>
  /\ vbatch = <<>>
  /\ vi = 0
  /\ vres = <<>>
  /\ vstore = <<>>
  /\ vremote = {}

KeyInit ==
  /\ hostOffset \in HostOffsets
  /\ today = FirstDay
  /\ kpc = "start"
  /\ kin \in [first : KeyInputs, second : {NoInput}]
  /\ kout = [first |-> NoKey, second |-> NoKey, again |-> NoKey]
  /\ lpc = "off" /\ rows = <<>> /\ cutoff = <<>> /\ recent = <<>>
  /\ PubIdle
  /\ RunIdle
  /\ ExtIdle
  /\ HistIdle
  /\ MainIdle
  /\ StoreIdle
  /\ ParseIdle
  /\ RetryIdle
  /\ PipeIdle
  /\ SlugIdle
  /\ CleanIdle
  /\ EvIdle

\* a record is keyed when its row is scraped
KeyFirst ==
  /\ kpc = "start"
  /\ kout' = [kout EXCEPT !.first =
       GenerateReleaseId(kin.first.title, kin.first.date, hostOffset, today)]
  /\ kpc' = "keyed"
  /\ UNCHANGED <<kin, hostOffset, today, listVars, cfgPublish, extVars, histVars, mainVars, storeVars, parseVars, retryVars, pipeVars, slugVars, cleanVars, evVars, pubVars,
                 twiceVars, runVars>>

\* another record is keyed in the same run
KeySecond ==
  /\ kpc = "keyed"
  /\ today = FirstDay
  /\ \E inp \in KeyInputs :
       /\ kin' = [kin EXCEPT !.second = inp]
       /\ kout' = [kout EXCEPT !.second =
            GenerateReleaseId(inp.title, inp.date, hostOffset, today)]
  /\ kpc' = "pair"
  /\ UNCHANGED <<hostOffset, today, listVars, cfgPublish, extVars, histVars, mainVars, storeVars, parseVars, retryVars, pipeVars, slugVars, cleanVars, evVars, pubVars,
                 twiceVars, runVars>>

\* time passes to the next UTC day
KeyTick ==
  /\ kpc = "keyed"
  /\ today < FirstDay + MaxDays
  /\ today' = today + 1
  /\ UNCHANGED <<kpc, kin, kout, hostOffset, listVars, cfgPublish, extVars, histVars, mainVars, storeVars, parseVars, retryVars, pipeVars, slugVars, cleanVars, evVars, pubVars,
                 twiceVars, runVars>>

\* the first record is keyed again, in a later run
KeyAgain ==
  /\ kpc = "keyed"
  /\ kout' = [kout EXCEPT !.again =
       GenerateReleaseId(kin.first.title, kin.first.date, hostOffset, today)]
  /\ kpc' = "again"
  /\ UNCHANGED <<kin, hostOffset, today, listVars, cfgPublish, extVars, histVars, mainVars, storeVars, parseVars, retryVars, pipeVars, slugVars, cleanVars, evVars, pubVars,
                 twiceVars, runVars>>

KeyNext == KeyFirst \/ KeySecond \/ KeyTick \/ KeyAgain

SpecKey == KeyInit /\ [][KeyNext]_vars

----------------------------------------------------------------------------
(* Claims about generateReleaseId *)

KeyOf(inp) == GenerateReleaseId(inp.title, inp.date, hostOffset, today)
FullKeyOf(inp) == UntruncatedId(inp.title, inp.date, hostOffset, today)
DateStrOf(inp) == ReleaseDateStr(inp.date, hostOffset, today)
\* characters of the cleaned title that fit under the length bound
TitleRoom == KeyMaxLen - 11

\* C6 (as claimed): keying the same (title, date) again at a later time,
\* possibly on a later calendar day, returns the key returned the first time.
C6_SameKeyLater == kpc = "again" => kout.again = kout.first

----------------------------------------------------------------------------
(* scraper.js: fetchPressReleaseList, the cutoff filter and the sort *)

UnknownDateText == <<"U", "n", "k", "n", "o", "w", "n", " ", "d", "a", "t", "e">>
UnknownIdText == <<"u", "n", "k", "n", "o", "w", "n">>

\* the record pushed for an accepted row (scraper.js 90-97)
MakeRelease(title, dateText, off, nowDay) ==
  [title |-> title,
   dateText |-> IF dateText = <<>> THEN UnknownDateText ELSE dateText,
   id |-> GenerateReleaseId(title,
            IF dateText = <<>> THEN UnknownIdText ELSE dateText, off, nowDay),
   rawDate |-> dateText]

\* release.rawDate || release.dateText
RawOrText(r) == IF r.rawDate # <<>> THEN r.rawDate ELSE r.dateText

\* the date text the filter parses: the part before an embedded line break
NormalizedText(r) ==
  LET dateStr == RawOrText(r)
  IN IF Includes(dateStr, "\n") THEN Trim(SplitFirst(dateStr, "\n")) ELSE dateStr

NormalizedDate(r, off) == ParseDate(NormalizedText(r), off)

KeepAll(r, cutoffStr, off) == TRUE

\* the predicate of releases.filter (scraper.js 124-147)
IsAfterCutoff(r, cutoffStr, off) ==
  LET cutoffDate == ParseDate(cutoffStr, off)
      releaseDate == NormalizedDate(r, off)
  IN releaseDate.ok /\ cutoffDate.ok /\ releaseDate.t >= cutoffDate.t

\* collation of the characters of the model's domain: white space, then
\* punctuation, then digits, then letters
CollationOrder ==
  <<"\n", " ", "-", ":", "0", "1", "2", "3", "4", "5", "6", "7", "8", "9",
    "a", "b", "c", "d", "e", "f", "g", "h", "i", "j", "k", "l", "m",
    "n", "o", "p", "q", "r", "s", "t", "u", "v", "w", "x", "y", "z">>
CharRank(c) == CHOOSE i \in 1..Len(CollationOrder) : CollationOrder[i] = ToLower(c)
\* lower case sorts before upper case when nothing else differs
CaseRank(c) == IF ToLower(c) = c THEN 0 ELSE 1

Sign(n) == IF n < 0 THEN 0 - 1 ELSE IF n > 0 THEN 1 ELSE 0

RECURSIVE LexCompare(_, _, _, _)
LexCompare(x, y, i, byCase) ==
  LET rank(c) == IF byCase THEN CaseRank(c) ELSE CharRank(c)
  IN IF i > Len(x) /\ i > Len(y) THEN 0
     ELSE IF i > Len(x) THEN 0 - 1
     ELSE IF i > Len(y) THEN 1
     ELSE IF rank(x[i]) # rank(y[i]) THEN Sign(rank(x[i]) - rank(y[i]))
     ELSE LexCompare(x, y, i + 1, byCase)

\* x.localeCompare(y)
LocaleCompare(x, y) ==
  IF LexCompare(x, y, 1, FALSE) # 0
    THEN LexCompare(x, y, 1, FALSE)
    ELSE LexCompare(x, y, 1, TRUE)

\* the comparator of recentReleases.sort (scraper.js 150-161)
SortCompare(a, b, off) ==
  LET dateA == ParseDate(RawOrText(a), off)
      dateB == ParseDate(RawOrText(b), off)
  IN IF dateA.ok /\ dateB.ok
       THEN dateB.t - dateA.t
       ELSE LocaleCompare(RawOrText(b), RawOrText(a))

\* Array.prototype.sort on a short array: binary insertion, stable
RECURSIVE InsertPos(_, _, _, _, _)
InsertPos(sorted, pivot, left, right, off) ==
  IF left >= right THEN left
  ELSE LET mid == left + ((right - left) \div 2)
       IN IF SortCompare(pivot, sorted[mid + 1], off) < 0
            THEN InsertPos(sorted, pivot, left, mid, off)
            ELSE InsertPos(sorted, pivot, mid + 1, right, off)

RECURSIVE SortFrom(_, _, _)
SortFrom(sorted, rest, off) ==
  IF rest = <<>> THEN sorted
  ELSE LET pivot == Head(rest)
           at == InsertPos(sorted, pivot, 0, Len(sorted), off)
       IN SortFrom(SubSeq(sorted, 1, at) \o <<pivot>>
                     \o SubSeq(sorted, at + 1, Len(sorted)),
                   Tail(rest), off)

SortReleases(rs, off) == SortFrom(<<>>, rs, off)

FilterReleases(releases, cutoffStr, off) ==
  SelectSeq(releases, LAMBDA r : IsAfterCutoff(r, cutoffStr, off))

\* what fetchPressReleaseList returns for the records parsed from the page
FetchPressReleaseList(releases, cutoffStr, off) ==
  SortReleases(FilterReleases(releases, cutoffStr, off), off)

----------------------------------------------------------------------------
(* Listing scenario: a page of up to MaxRows records is filtered and sorted *)

RowTitle(i) ==
  <<"r", "e", "l", "e", "a", "s", "e", " ", "n", "o", " ", Digits[i + 1]>>
RowDates ==
  UNION {{IsoText(2025, d[1], d[2]), DmyText(2025, d[1], d[2]),
          ListingText(2025, d[1], d[2])} :
           d \in {<<6, 26>>, <<6, 27>>, <<6, 28>>, <<7, 3>>}}
    \cup {UnknownText, <<>>}
Cutoffs == {IsoText(2025, 6, 27)}

\* rows of the page: the title and date text found in each
PagesOf(n) ==
  {[i \in 1..n |-> [title |-> RowTitle(i), date |-> ds[i]]] :
     ds \in [1..n -> RowDates]}

\* the records pushed for the rows of the page, in page order
Scrape(page, off, nowDay) ==
  [i \in 1..Len(page) |-> MakeRelease(page[i].title, page[i].date, off, nowDay)]

ListInit ==
  /\ hostOffset \in HostOffsets
  /\ today = FirstDay
  /\ KeyIdle
  /\ PubIdle
  /\ RunIdle
  /\ ExtIdle
  /\ HistIdle
  /\ MainIdle
  /\ StoreIdle
  /\ ParseIdle
  /\ RetryIdle
  /\ PipeIdle
  /\ SlugIdle
  /\ CleanIdle
  /\ EvIdle
  /\ lpc = "start"
  /\ \E n \in 0..MaxRows : rows \in PagesOf(n)
  /\ cutoff \in Cutoffs
  /\ recent = <<>>

ListFetch ==
  /\ lpc = "start"
  /\ recent' = FetchPressReleaseList(Scrape(rows, hostOffset, today), cutoff,
                                     hostOffset)
  /\ lpc' = "done"
  /\ UNCHANGED <<rows, cutoff, hostOffset, today, keyVars, cfgPublish, extVars, histVars, mainVars, storeVars, parseVars, retryVars, pipeVars, slugVars, cleanVars, evVars, pubVars,
                 twiceVars, runVars>>

ListNext == ListFetch

SpecList == ListInit /\ [][ListNext]_vars

\* the calendar day a date text names, whatever the host's time zone
WrittenDay(r) == LocalDay(NormalizedDate(r, hostOffset).t,
                          IF IsIsoDate(NormalizedText(r)) THEN 0 ELSE hostOffset)
CutoffDay == ParseDate(cutoff, hostOffset).t \div 24
Returned(r) == \E i \in 1..Len(recent) : recent[i] = r

\* C9 (as claimed): of two returned records whose normalized dates parse,
\* the one with the later normalized date comes first.
C9_NewestFirst ==
  lpc = "done" =>
    \A i, j \in 1..Len(recent) :
      (/\ i < j
       /\ NormalizedDate(recent[i], hostOffset).ok
       /\ NormalizedDate(recent[j], hostOffset).ok)
        => NormalizedDate(recent[i], hostOffset).t
             >= NormalizedDate(recent[j], hostOffset).t

\* C10 (as claimed): a record dated exactly the cutoff date is kept and a
\* record dated the day before it is dropped, in every accepted date format
\* and every host time zone.
C10_CutoffBoundary ==
  lpc = "done" =>
    \A i \in 1..Len(rows) :
      LET r == Scrape(rows, hostOffset, today)[i]
      IN NormalizedDate(r, hostOffset).ok =>
           /\ WrittenDay(r) = CutoffDay => Returned(r)
           /\ WrittenDay(r) = CutoffDay - 1 => ~Returned(r)

\* C11: every returned record has a date text that parses, at or after the
\* cutoff instant and naming a day not before the cutoff day; a record whose
\* date text does not parse is not returned; and every other record of the
\* page whose date parses at or after the cutoff is still returned.
C11_UnparsableDropped ==
  lpc = "done" =>
    /\ \A i \in 1..Len(recent) :
         /\ NormalizedDate(recent[i], hostOffset).ok
         /\ NormalizedDate(recent[i], hostOffset).t
              >= ParseDate(cutoff, hostOffset).t
         /\ WrittenDay(recent[i]) >= CutoffDay
    /\ \A i \in 1..Len(rows) :
         LET r == Scrape(rows, hostOffset, today)[i]
             d == NormalizedDate(r, hostOffset)
         IN /\ ~d.ok => ~Returned(r)
            /\ (d.ok /\ d.t >= ParseDate(cutoff, hostOffset).t) => Returned(r)

\* C11 witness: the first row's date text does not parse, the record of the
\* second row is returned and the first row's record is not.
C11_Witness ==
  /\ lpc = "done"
  /\ Len(rows) >= 2
  /\ ~NormalizedDate(Scrape(rows, hostOffset, today)[1], hostOffset).ok
  /\ Returned(Scrape(rows, hostOffset, today)[2])
  /\ ~Returned(Scrape(rows, hostOffset, today)[1])

----------------------------------------------------------------------------
(* scraper.js: fetchPressReleaseList, the selector chain and the row       *)
(* handler.  An element of the page is given by the row selectors it       *)
(* matches, whether it contains a th, the text of the first element each   *)
(* title sub-selector finds in it, and the text of its first cell.         *)

Selectors ==
  <<"tr", "tbody tr", ".table-row", ".list-item", ".press-release-item",
    "[data-testid=table-row]", ".row", "tr[role=row]">>

TitleSelectors ==
  <<"td:nth-child(3)", "td:nth-child(2)", "td:nth-child(4)", ".title",
    ".press-release-title", "h3", "h4", "a[title]", "td a", ".link-title">>

\* title.length > 10
MinTitle == 10

\* the first sub-selector, from the k-th on, whose first element has text
\* after trimming; 0 when none has
RECURSIVE TitleSelFrom(_, _)
TitleSelFrom(el, k) ==
  IF k > Len(TitleSelectors) THEN 0
  ELSE IF Trim(el.text[TitleSelectors[k]]) # <<>> THEN k
  ELSE TitleSelFrom(el, k + 1)

\* the title the row handler ends its sub-selector loop with
TitleOf(el) ==
  IF TitleSelFrom(el, 1) = 0 THEN <<>>
  ELSE Trim(el.text[TitleSelectors[TitleSelFrom(el, 1)]])

AcceptAny(el) == TRUE

\* the row handler pushes a record: no th inside, title && title.length > 10
Accepted(el) == ~el.th /\ TitleOf(el) # <<>> /\ Len(TitleOf(el)) > MinTitle

NeverBreaks(found) == FALSE

\* if (foundReleases) break;
LoopBreaks(found) == found

\* the record pushed for an accepted row
ParsedRecord(el) == MakeRelease(TitleOf(el), Trim(el.date), hostOffset, today)

\* indices of the elements the selector matches, in document order
Matched(doc, sel) ==
  SelectSeq([i \in 1..Len(doc) |-> i], LAMBDA i : sel \in doc[i].matches)

\* of these, the ones whose row handler pushes a record
Pushing(doc, sel) == SelectSeq(Matched(doc, sel), LAMBDA i : Accepted(doc[i]))

Title10 == SubSeq(RowTitle(1), 1, MinTitle)
TitleTexts ==
  {Title10 \o <<"1">>, Title10, <<" ">> \o Title10 \o <<" ">>}

\* an element with text under the third-cell and second-cell sub-selectors
Element(matches, th, td3, td2) ==
  [matches |-> matches,
   th |-> th,
   text |-> [q \in {TitleSelectors[k] : k \in 1..Len(TitleSelectors)} |->
               IF q = "td:nth-child(3)" THEN td3
               ELSE IF q = "td:nth-child(2)" THEN td2
               ELSE <<>>],
   date |-> IsoText(2025, 6, 28)]

\* table rows outside and inside a tbody, and div.row blocks; with a title
\* of 11 or 10 characters, a padded one, a blank third cell before a good
\* second cell, no text at all, or a header cell next to a good title
Elements ==
  {Element(m, FALSE, t, <<>>) :
     m \in {{"tr"}, {"tr", "tbody tr"}, {".row"}}, t \in TitleTexts}
  \cup
  {Element(m, h, <<" ", " ">>, t) :
     m \in {{"tr"}, {"tr", "tbody tr"}, {".row"}}, h \in BOOLEAN,
     t \in {Title10 \o <<"2">>, <<>>}}

ParsePagesOf(n) == [1..n -> Elements]

otherThanParse == <<hostOffset, today, keyVars, listVars, cfgPublish, pubVars,
                    twiceVars, runVars, extVars, histVars, mainVars,
                    storeVars,
                   retryVars, pipeVars, slugVars, cleanVars, evVars>>

\* one round of the for loop over the selectors: $(selector).each(...)
ParseSelector ==
  /\ ppc = "loop"
  /\ psel <= Len(Selectors)
  /\ ~LoopBreaks(foundReleases)
  /\ LET hit == Pushing(pdoc, Selectors[psel])
     IN /\ parsed' = parsed \o
                       [k \in 1..Len(hit) |-> ParsedRecord(pdoc[hit[k]])]
        /\ origins' = origins \o hit
        /\ foundReleases' = (foundReleases \/ hit # <<>>)
  /\ tried' = Append(tried, psel)
  /\ psel' = psel + 1
  /\ UNCHANGED <<ppc, pdoc>>
  /\ UNCHANGED otherThanParse

\* the loop ends: at the break, or after the last selector
ParseEnd ==
  /\ ppc = "loop"
  /\ LoopBreaks(foundReleases) \/ psel > Len(Selectors)
  /\ ppc' = "done"
  /\ UNCHANGED <<pdoc, psel, parsed, origins, foundReleases, tried>>
  /\ UNCHANGED otherThanParse

ParseInit ==
  /\ hostOffset = 0
  /\ today = FirstDay
  /\ KeyIdle
  /\ lpc = "off" /\ rows = <<>> /\ cutoff = <<>> /\ recent = <<>>
  /\ PubIdle
  /\ RunIdle
  /\ ExtIdle
  /\ HistIdle
  /\ MainIdle
  /\ StoreIdle
  /\ RetryIdle
  /\ PipeIdle
  /\ SlugIdle
  /\ CleanIdle
  /\ EvIdle
  /\ ppc = "loop"
  /\ \E n \in 1..MaxRows : pdoc \in ParsePagesOf(n)
  /\ psel = 1
  /\ parsed = <<>>
  /\ origins = <<>>
  /\ foundReleases = FALSE
  /\ tried = <<>>

ParseNext ==
  \/ ParseSelector
  \/ ParseEnd

SpecParse == ParseInit /\ [][ParseNext]_vars

\* the selector under which the records were pushed
Winner == tried[Len(tried)]

\* C21: the selectors are tried in their order; once one has pushed a record
\* none is tried after it, so no selector before the last tried one pushed
\* anything; every record comes from an element the last tried selector
\* matches, and no element has two records, also when the winning selector
\* matches elements that were rejected and a later selector matches an
\* accepted one.
C21_FirstSuccessWins ==
  /\ tried = [k \in 1..Len(tried) |-> k]
  /\ foundReleases =>
       /\ \A k \in 1..(Len(tried) - 1) : Pushing(pdoc, Selectors[k]) = <<>>
       /\ \A k \in 1..Len(origins) :
            Selectors[Winner] \in pdoc[origins[k]].matches
  /\ \A j, k \in 1..Len(origins) : j # k => origins[j] # origins[k]
  /\ Len(origins) = Len(parsed)

\* C21 witness: the parse is over after the first selector, which matched a
\* rejected element, while the second selector matches an accepted one.
C21_Witness ==
  /\ ppc = "done"
  /\ tried = <<1>>
  /\ \E i \in 1..Len(pdoc) : "tr" \in pdoc[i].matches /\ i \notin SeqRange(origins)
  /\ Pushing(pdoc, "tbody tr") # <<>>

\* C30: every record comes from an element without a th, and its title is
\* the trimmed text of the first title sub-selector that has any, more than
\* 10 characters long; when the parse is over, every such element the
\* winning selector matches has its record, in document order, whatever
\* elements were dropped before it.
C30_RowAcceptance ==
  /\ \A k \in 1..Len(parsed) :
       LET el == pdoc[origins[k]]
           first == TitleSelFrom(el, 1)
       IN /\ ~el.th
          /\ first > 0
          /\ parsed[k].title = Trim(el.text[TitleSelectors[first]])
          /\ \A q \in 1..(first - 1) : Trim(el.text[TitleSelectors[q]]) = <<>>
          /\ Len(parsed[k].title) > 10
  /\ (ppc = "done" /\ foundReleases) =>
       /\ \A i \in 1..Len(pdoc) :
            (/\ Selectors[Winner] \in pdoc[i].matches
             /\ ~pdoc[i].th
             /\ Len(TitleOf(pdoc[i])) > 10) => i \in SeqRange(origins)
       /\ \A j, k \in 1..Len(origins) : j < k => origins[j] < origins[k]

\* C30 witness: the parse is over, the first element the winning selector
\* matches was dropped and a later one has its record.
C30_Witness ==
  /\ ppc = "done"
  /\ foundReleases
  /\ origins = <<2>>
  /\ Selectors[Winner] \in pdoc[1].matches

----------------------------------------------------------------------------
(* webflow.js: slugs *)

SlugMaxLen == 100

\* .replace(/[^a-z0-9\\s-]/g, ''): the class holds a-z, 0-9, the backslash
\* and the hyphen, so white space is removed
KeepSlugChars(s) ==
  SelectSeq(s, LAMBDA c : c \in LowerLetters \cup DigitSet \cup {"\\", "-"})

RECURSIVE DropLeading(_, _)
DropLeading(s, c) ==
  IF s # <<>> /\ Head(s) = c THEN DropLeading(Tail(s), c) ELSE s

\* .replace(/\\s+/g, '-'): a backslash followed by one or more "s"
RECURSIVE ReplaceBackslashS(_)
ReplaceBackslashS(s) ==
  IF s = <<>> THEN <<>>
  ELSE IF Head(s) = "\\" /\ Len(s) >= 2 /\ s[2] = "s"
    THEN <<"-">> \o ReplaceBackslashS(DropLeading(Tail(s), "s"))
    ELSE <<Head(s)>> \o ReplaceBackslashS(Tail(s))

\* .replace(/-+/g, '-')
RECURSIVE CollapseHyphens(_)
CollapseHyphens(s) ==
  IF s = <<>> THEN <<>>
  ELSE IF Head(s) = "-"
    THEN <<"-">> \o CollapseHyphens(DropLeading(s, "-"))
    ELSE <<Head(s)>> \o CollapseHyphens(Tail(s))

GenerateSlug(title) ==
  Substring0(
    Trim(CollapseHyphens(ReplaceBackslashS(KeepSlugChars(ToLowerCase(title))))),
    SlugMaxLen)

GenerateUniqueSlug(title, publishDate, off) ==
  LET date == ParseDate(publishDate, off)
      datePart == IF date.ok THEN <<"-">> \o IsoDay(LocalDay(date.t, off))
                             ELSE <<>>
  IN Substring0(GenerateSlug(title) \o datePart, SlugMaxLen)

SlugOf(release) ==
  GenerateUniqueSlug(release.title, release.publishDate, hostOffset)

----------------------------------------------------------------------------
(* webflow.js: itemExists, createItem, publishItem, createItems *)

NeverFound(items, slug) == FALSE

\* response.data.items?.find(item => item.fieldData?.slug === uniqueSlug)
SlugExists(items, slug) == \E k \in 1..Len(items) : items[k].slug = slug

\* an item that is never a draft
PublicItem(release) ==
  [id |-> Len(remote) + 1,
   name |-> release.title,
   slug |-> SlugOf(release),
   isDraft |-> FALSE,
   published |-> FALSE,
   of |-> [title |-> release.title, dateText |-> release.dateText]]

\* the item the CMS stores for a POST; `of` records which record it is for
NewItem(release) ==
  [id |-> Len(remote) + 1,
   name |-> release.title,
   slug |-> SlugOf(release),
   isDraft |-> ~cfgPublish,
   published |-> FALSE,
   of |-> [title |-> release.title, dateText |-> release.dateText]]

otherThanPub == <<hostOffset, today, keyVars, listVars, cfgPublish, extVars, histVars, mainVars, storeVars, parseVars, retryVars, pipeVars, slugVars, cleanVars, evVars, twiceVars,
                  runVars>>

NoResults == [created |-> <<>>, skipped |-> <<>>, errors |-> <<>>]

\* utils.js retry: the error of try i is rethrown when i === attempts - 1
LastTry(i) == i = RetryAttempts - 1

StopAfterRecord(i, n) == "returned"

\* the for loop of createItems: what follows record i of n
AfterRecord(i, n) == IF i >= n THEN "returned" ELSE "exists"

Release == pressReleases[idx]

NextRecord(res) ==
  /\ results' = res
  /\ cpc' = AfterRecord(idx, Len(pressReleases))
  /\ idx' = idx + 1
  /\ attempt' = 0
  /\ pubAttempt' = 0
  /\ createdItem' = <<>>

\* createItems(list) is called
CallCreateItems(list) ==
  /\ pressReleases' = list
  /\ results' = NoResults
  /\ cpc' = AfterRecord(0, Len(list))
  /\ idx' = 1
  /\ attempt' = 0
  /\ pubAttempt' = 0
  /\ createdItem' = <<>>
  /\ callBase' = Len(remote)
  /\ checked' = <<>>

\* itemExists: the GET answers
ItemExistsOk ==
  /\ cpc = "exists"
  /\ checked' = Append(checked, idx)
  /\ IF SlugExists(remote, SlugOf(Release))
       THEN NextRecord([results EXCEPT !.skipped = Append(@, Release)])
       ELSE /\ cpc' = "post"
            /\ UNCHANGED <<results, idx, attempt, pubAttempt, createdItem>>
  /\ UNCHANGED <<remote, pressReleases, failures, callBase>>
  /\ UNCHANGED otherThanPub

\* itemExists: the GET fails, the catch returns false
ItemExistsFail ==
  /\ cpc = "exists"
  /\ failures < MaxFailures
  /\ failures' = failures + 1
  /\ checked' = Append(checked, idx)
  /\ cpc' = "post"
  /\ UNCHANGED <<remote, pressReleases, results, idx, attempt, pubAttempt,
                 createdItem, callBase>>
  /\ UNCHANGED otherThanPub

\* createItem: the POST answers with the created item
PostOk ==
  /\ cpc = "post"
  /\ remote' = Append(remote, NewItem(Release))
  /\ IF cfgPublish
       THEN /\ createdItem' = NewItem(Release)
            /\ cpc' = "publish"
            /\ pubAttempt' = 0
            /\ UNCHANGED <<results, idx, attempt>>
       ELSE NextRecord([results EXCEPT !.created =
              Append(@, [release |-> Release, webflowItem |-> NewItem(Release)])])
  /\ UNCHANGED <<pressReleases, failures, callBase, checked>>
  /\ UNCHANGED otherThanPub

\* createItem: the POST fails; retried, or rethrown to createItems' catch
PostFail ==
  /\ cpc = "post"
  /\ failures < MaxFailures
  /\ failures' = failures + 1
  /\ IF LastTry(attempt)
       THEN NextRecord([results EXCEPT !.errors =
              Append(@, [release |-> Release,
                         error |-> [op |-> "create", try |-> attempt]])])
       ELSE /\ attempt' = attempt + 1
            /\ UNCHANGED <<results, cpc, idx, pubAttempt, createdItem>>
  /\ UNCHANGED <<remote, pressReleases, callBase, checked>>
  /\ UNCHANGED otherThanPub

\* publishItem: the POST answers
PublishOk ==
  /\ cpc = "publish"
  /\ remote' = [remote EXCEPT ![createdItem.id].published = TRUE]
  /\ NextRecord([results EXCEPT !.created =
       Append(@, [release |-> Release, webflowItem |-> createdItem])])
  /\ UNCHANGED <<pressReleases, failures, callBase, checked>>
  /\ UNCHANGED otherThanPub

\* publishItem: the POST fails; retried by publishItem, then rethrown into
\* createItem's retry, which runs the whole create again
PublishFail ==
  /\ cpc = "publish"
  /\ failures < MaxFailures
  /\ failures' = failures + 1
  /\ IF ~LastTry(pubAttempt)
       THEN /\ pubAttempt' = pubAttempt + 1
            /\ UNCHANGED <<results, cpc, idx, attempt, createdItem>>
     ELSE IF ~LastTry(attempt)
       THEN /\ attempt' = attempt + 1
            /\ pubAttempt' = 0
            /\ createdItem' = <<>>
            /\ cpc' = "post"
            /\ UNCHANGED <<results, idx>>
     ELSE NextRecord([results EXCEPT !.errors =
            Append(@, [release |-> Release,
                       error |-> [op |-> "publish", try |-> pubAttempt]])])
  /\ UNCHANGED <<remote, pressReleases, callBase, checked>>
  /\ UNCHANGED otherThanPub

----------------------------------------------------------------------------
(* Publisher scenario: createItems is called twice on one list of records, *)
(* as the upload test of master-test.js does once.                         *)

\* fetchPressReleaseContent's result, content left out
WithContent(r) ==
  [title |-> r.title, dateText |-> r.dateText, id |-> r.id,
   rawDate |-> r.rawDate, publishDate |-> r.dateText]

PoolTitle(i) == RowTitle(i)
\* records 1 and 3 share the title; their dates are in the listing's format
BatchPool ==
  <<[title |-> RowTitle(1), date |-> ListingText(2025, 6, 28)],
    [title |-> RowTitle(2), date |-> ListingText(2025, 7, 3)],
    [title |-> RowTitle(1), date |-> ListingText(2025, 7, 3)],
    [title |-> RowTitle(2), date |-> IsoText(2025, 6, 28)]>>

PoolRelease(i) ==
  WithContent(MakeRelease(BatchPool[i].title, BatchPool[i].date, hostOffset, today))

\* lists of 1..MaxRows different records of the pool
BatchesOf(n) ==
  {[i \in 1..n |-> PoolRelease(f[i])] :
     f \in {g \in [1..n -> 1..Len(BatchPool)] :
              \A i, j \in 1..n : i # j => g[i] # g[j]}}
Batches == UNION {BatchesOf(n) : n \in 1..MaxRows}

TwiceInit ==
  /\ hostOffset = 2
  /\ today = FirstDay
  /\ KeyIdle
  /\ lpc = "off" /\ rows = <<>> /\ cutoff = <<>> /\ recent = <<>>
  /\ cfgPublish \in BOOLEAN
  /\ remote = <<>>
  /\ pressReleases \in Batches
  /\ results = NoResults
  /\ cpc = "idle"
  /\ idx = 0
  /\ attempt = 0
  /\ pubAttempt = 0
  /\ createdItem = <<>>
  /\ failures = 0
  /\ callBase = 0
  /\ checked = <<>>
  /\ calls = 0
  /\ firstResults = <<>>
  /\ RunIdle
  /\ ExtIdle
  /\ HistIdle
  /\ MainIdle
  /\ StoreIdle
  /\ ParseIdle
  /\ RetryIdle
  /\ PipeIdle
  /\ SlugIdle
  /\ CleanIdle
  /\ EvIdle

TwiceCall ==
  /\ cpc \in {"idle", "returned"}
  /\ calls < 2
  /\ calls' = calls + 1
  /\ firstResults' = IF calls = 1 THEN results ELSE firstResults
  /\ CallCreateItems(pressReleases)
  /\ UNCHANGED <<remote, failures, hostOffset, today, keyVars, listVars,
                 cfgPublish, extVars, histVars, mainVars, storeVars, parseVars, retryVars, pipeVars, slugVars, cleanVars, evVars, runVars>>

TwiceNext ==
  \/ TwiceCall
  \/ ItemExistsOk
  \/ ItemExistsFail
  \/ PostOk
  \/ PostFail
  \/ PublishOk
  \/ PublishFail

SpecTwice == TwiceInit /\ [][TwiceNext]_vars

----------------------------------------------------------------------------
(* Claims about createItems *)

RecOf(release) == [title |-> release.title, dateText |-> release.dateText]
\* items created since createItems was called
NewItems == {k \in 1..Len(remote) : k > callBase}
ItemsFor(release) == {k \in 1..Len(remote) : remote[k].of = RecOf(release)}
DistinctSlugs ==
  \A i, j \in 1..Len(pressReleases) :
    i # j => SlugOf(pressReleases[i]) # SlugOf(pressReleases[j])
SecondCallReturned == calls = 2 /\ cpc = "returned"

\* C1 (as claimed): for any list of N records, the first createItems call
\* creates N, the second call skips N and creates none, and afterwards no
\* two remote items are for the same record.
C1_TwiceIdempotent ==
  SecondCallReturned =>
    /\ Len(firstResults.created) = Len(pressReleases)
    /\ Len(results.skipped) = Len(pressReleases)
    /\ results.created = <<>>
    /\ \A i \in 1..Len(pressReleases) :
         Cardinality(ItemsFor(pressReleases[i])) <= 1

\* C1 (amended): for any list of N records with pairwise different slugs,
\* when no request of either call fails, the first call creates N, the second
\* skips N and creates none, and no two remote items have the same slug.
C1_TwiceIdempotentAmended ==
  (SecondCallReturned /\ failures = 0 /\ DistinctSlugs) =>
    /\ Len(firstResults.created) = Len(pressReleases)
    /\ Len(results.skipped) = Len(pressReleases)
    /\ results.created = <<>>
    /\ results.errors = <<>>
    /\ \A k, l \in 1..Len(remote) : k # l => remote[k].slug # remote[l].slug

\* C1 witness: both calls have returned for a list of two or more records
\* with different slugs and no request failed.
C1_Witness ==
  /\ SecondCallReturned
  /\ failures = 0
  /\ DistinctSlugs
  /\ Len(pressReleases) >= 2
  /\ Len(results.skipped) = Len(pressReleases)

\* C2 (as claimed): within one createItems call at most one remote item is
\* created for a record, whatever requests fail.
C2_OneItemPerRecord ==
  \A i \in 1..Len(pressReleases) :
    Cardinality(ItemsFor(pressReleases[i]) \cap NewItems) <= 1

\* C5: when createItems returns, every record's existence check was issued,
\* in list order; every record is in created, skipped or errors; a record in
\* errors is not in created and carries the error of its last try.
C5_PartialFailureTolerated ==
  cpc = "returned" =>
    /\ checked = [i \in 1..Len(pressReleases) |-> i]
    /\ \A i \in 1..Len(pressReleases) :
         \/ pressReleases[i] \in SeqRange(results.skipped)
         \/ \E c \in SeqRange(results.created) : c.release = pressReleases[i]
         \/ \E e \in SeqRange(results.errors) : e.release = pressReleases[i]
    /\ \A e \in SeqRange(results.errors) :
         /\ e.error.try = RetryAttempts - 1
         /\ e.error.op \in {"create", "publish"}
         /\ ~\E c \in SeqRange(results.created) : c.release = e.release

\* C5 witness: the first record of a batch ended in errors and the second
\* record was created after it.
C5_Witness ==
  /\ cpc = "returned"
  /\ Len(pressReleases) >= 2
  /\ Len(results.errors) >= 1
  /\ results.errors[1].release = pressReleases[1]
  /\ Len(results.created) >= 1
  /\ results.created[1].release = pressReleases[2]

----------------------------------------------------------------------------
(* scraper.js: fetchPressReleaseContent, in the two variants the repository *)
(* holds, inside the content loop of getLatestReleases                      *)

Variants == {"modal", "direct"}

NoLink == <<"#">>
\* a record of the list, with the link and node id its row carried
ListedRecord(i, hasNode, hasLink) ==
  [title |-> RowTitle(i),
   dateText |-> ListingText(2025, 6, 28),
   url |-> IF hasLink THEN <<"u", Digits[i + 1]>> ELSE NoLink,
   nodeId |-> IF hasNode THEN <<"n", Digits[i + 1]>> ELSE <<>>]

HtmlOpen == <<"<h2>">>
HrefOpen == <<". <a href=\"">>
\* the synthesized content: title, raw date text and a link to release.url
FallbackContent(r) ==
  <<HtmlOpen, r.title, <<"</h2><p>Press release content from ">>, r.dateText,
    HrefOpen, r.url, <<"\">Read full article</a></p>">>>>

\* the content built from what page.evaluate found
ExtractedContent(r) ==
  <<<<"<div class=\"press-release-content\">">>, r.nodeId, r.url, <<"</div>">>>>

WithFallback(r) == [release |-> r, content |-> FallbackContent(r), kind |-> "fallback"]
WithExtracted(r) ==
  [release |-> r, content |-> ExtractedContent(r), kind |-> "extracted"]

\* what page.evaluate can return: nothing, a text under the minimum length
\* (direct variant only), or a text long enough
Evaluated == {"none", "short", "long"}

ExtRecord == elist[eidx]

otherThanExt == <<hostOffset, today, keyVars, listVars, cfgPublish, pubVars,
                  twiceVars, runVars, histVars, mainVars, storeVars, parseVars, retryVars, pipeVars, slugVars, cleanVars, evVars>>

\* the loop of getLatestReleases goes on to the next record
NextExtraction ==
  /\ epc' = IF eidx >= Len(elist) THEN "returned" ELSE "call"
  /\ eidx' = eidx + 1
  /\ eAttempt' = 0
  /\ browser' = "none"
  /\ pending' = "none"

\* fetchPressReleaseContent returns rec: getLatestReleases pushes it
ReturnRecord(rec) ==
  /\ withContent' = Append(withContent, rec)
  /\ NextExtraction

\* direct variant: the try throws; retry runs it again or rethrows, and
\* getLatestReleases then logs the record and leaves it out
RetryOrDrop ==
  IF LastTry(eAttempt)
    THEN /\ NextExtraction
         /\ UNCHANGED withContent
    ELSE /\ eAttempt' = eAttempt + 1
         /\ epc' = "launch"
         /\ browser' = "none"
         /\ pending' = "none"
         /\ UNCHANGED <<eidx, withContent>>

\* an await after the launch throws. modal variant: the outer catch returns
\* the fallback, the instance is out of scope. direct variant: finally
\* closes the instance, then the retry.
ThrowAfterLaunch ==
  IF variant = "modal"
    THEN /\ ReturnRecord(WithFallback(ExtRecord))
         /\ UNCHANGED open
    ELSE /\ open' = IF browser = "open" THEN open - 1 ELSE open
         /\ RetryOrDrop

ExtFault ==
  /\ efailures < MaxFailures
  /\ efailures' = efailures + 1

\* fetchPressReleaseContent(release) is called. modal variant: a record
\* without node id gets the fallback at once
ExtCall ==
  /\ epc = "call"
  /\ IF variant = "modal" /\ ExtRecord.nodeId = <<>>
       THEN ReturnRecord(WithFallback(ExtRecord))
       ELSE /\ epc' = "launch"
            /\ UNCHANGED <<eidx, eAttempt, browser, pending, withContent>>
  /\ UNCHANGED <<variant, elist, open, efailures>>
  /\ UNCHANGED otherThanExt

\* puppeteer.launch resolves
LaunchOk ==
  /\ epc = "launch"
  /\ browser' = "open"
  /\ open' = open + 1
  /\ epc' = "page"
  /\ UNCHANGED <<variant, elist, eidx, eAttempt, pending, withContent,
                 efailures>>
  /\ UNCHANGED otherThanExt

\* puppeteer.launch rejects: no instance exists
LaunchFail ==
  /\ epc = "launch"
  /\ ExtFault
  /\ IF variant = "modal"
       THEN ReturnRecord(WithFallback(ExtRecord))
       ELSE RetryOrDrop
  /\ UNCHANGED <<variant, elist, open>>
  /\ UNCHANGED otherThanExt

\* browser.newPage and the page's set-up resolve
PageOk ==
  /\ epc = "page"
  /\ epc' = "goto"
  /\ UNCHANGED <<variant, elist, eidx, eAttempt, browser, open, pending,
                 withContent, efailures>>
  /\ UNCHANGED otherThanExt

\* browser.newPage or the page's set-up throws
PageFail ==
  /\ epc = "page"
  /\ ExtFault
  /\ ThrowAfterLaunch
  /\ UNCHANGED <<variant, elist>>
  /\ UNCHANGED otherThanExt

\* page.goto resolves: the listing page (modal) or release.url (direct)
GotoOk ==
  /\ epc = "goto"
  /\ epc' = IF variant = "modal" THEN "click" ELSE "evaluate"
  /\ UNCHANGED <<variant, elist, eidx, eAttempt, browser, open, pending,
                 withContent, efailures>>
  /\ UNCHANGED otherThanExt

\* page.goto times out
GotoFail ==
  /\ epc = "goto"
  /\ ExtFault
  /\ ThrowAfterLaunch
  /\ UNCHANGED <<variant, elist>>
  /\ UNCHANGED otherThanExt

\* modal variant: the link is found and clicked and the modal appears
ClickOk ==
  /\ epc = "click"
  /\ epc' = "evaluate"
  /\ UNCHANGED <<variant, elist, eidx, eAttempt, browser, open, pending,
                 withContent, efailures>>
  /\ UNCHANGED otherThanExt

\* modal variant: waitForSelector or click times out; the inner catch logs
\* it and the code after the inner try closes the browser
ClickFail ==
  /\ epc = "click"
  /\ ExtFault
  /\ epc' = "close"
  /\ UNCHANGED <<variant, elist, eidx, eAttempt, browser, open, pending,
                 withContent>>
  /\ UNCHANGED otherThanExt

\* page.evaluate resolves with what it found. modal variant: the browser is
\* closed next. direct variant: content under the minimum length throws,
\* and finally closes the browser either way
EvalOk ==
  /\ epc = "evaluate"
  /\ \E c \in Evaluated :
       IF variant = "modal"
         THEN /\ c # "short"
              /\ pending' = c
              /\ epc' = "closeFirst"
              /\ UNCHANGED <<eidx, eAttempt, browser, open, withContent>>
         ELSE /\ open' = IF browser = "open" THEN open - 1 ELSE open
              /\ IF c = "long"
                   THEN ReturnRecord(WithExtracted(ExtRecord))
                   ELSE RetryOrDrop
  /\ UNCHANGED <<variant, elist, efailures>>
  /\ UNCHANGED otherThanExt

\* page.evaluate throws
EvalFail ==
  /\ epc = "evaluate"
  /\ ExtFault
  /\ IF variant = "modal"
       THEN /\ epc' = "close"
            /\ UNCHANGED <<eidx, eAttempt, browser, open, pending, withContent>>
       ELSE ThrowAfterLaunch
  /\ UNCHANGED <<variant, elist>>
  /\ UNCHANGED otherThanExt

\* modal variant: browser.close() after the evaluation, then the record
\* with the content is returned, or the fallback part follows
CloseAfterEval ==
  /\ epc = "closeFirst"
  /\ open' = IF browser = "open" THEN open - 1 ELSE open
  /\ IF pending = "long"
       THEN ReturnRecord(WithExtracted(ExtRecord))
       ELSE /\ epc' = "close"
            /\ browser' = "closed"
            /\ UNCHANGED <<eidx, eAttempt, pending, withContent>>
  /\ UNCHANGED <<variant, elist, efailures>>
  /\ UNCHANGED otherThanExt

\* modal variant: browser.close() after the inner try, fallback returned
CloseAndFallback ==
  /\ epc = "close"
  /\ open' = IF browser = "open" THEN open - 1 ELSE open
  /\ ReturnRecord(WithFallback(ExtRecord))
  /\ UNCHANGED <<variant, elist, efailures>>
  /\ UNCHANGED otherThanExt

\* lists of 1..MaxRows records, each with or without node id and link
ExtListsOf(n) ==
  {[i \in 1..n |-> ListedRecord(i, f[i][1], f[i][2])] :
     f \in [1..n -> BOOLEAN \X BOOLEAN]}
ExtLists == UNION {ExtListsOf(n) : n \in 1..MaxRows}

ExtInit ==
  /\ hostOffset = 0
  /\ today = FirstDay
  /\ KeyIdle
  /\ lpc = "off" /\ rows = <<>> /\ cutoff = <<>> /\ recent = <<>>
  /\ PubIdle
  /\ RunIdle
  /\ HistIdle
  /\ MainIdle
  /\ StoreIdle
  /\ ParseIdle
  /\ RetryIdle
  /\ PipeIdle
  /\ SlugIdle
  /\ CleanIdle
  /\ EvIdle
  /\ variant \in Variants
  /\ elist \in ExtLists
  /\ eidx = 1
  /\ epc = "call"
  /\ eAttempt = 0
  /\ browser = "none"
  /\ open = 0
  /\ pending = "none"
  /\ withContent = <<>>
  /\ efailures = 0

ExtNext ==
  \/ ExtCall
  \/ LaunchOk
  \/ LaunchFail
  \/ PageOk
  \/ PageFail
  \/ GotoOk
  \/ GotoFail
  \/ ClickOk
  \/ ClickFail
  \/ EvalOk
  \/ EvalFail
  \/ CloseAfterEval
  \/ CloseAndFallback

SpecExtract == ExtInit /\ [][ExtNext]_vars

\* C12 (as claimed): whenever a call of fetchPressReleaseContent has returned
\* or thrown, every browser instance it launched has been closed.
C12_BrowserClosed == epc \in {"call", "returned"} => open = 0

\* C13 (as claimed): when the content loop of getLatestReleases ends, every
\* record of the list is in its result, in list order, with non-empty
\* content; and content that was synthesized holds the record's title and a
\* link to its url.
C13_AlwaysContent ==
  epc = "returned" =>
    /\ Len(withContent) = Len(elist)
    /\ \A i \in 1..Len(withContent) :
         /\ withContent[i].release = elist[i]
         /\ withContent[i].content # <<>>
         /\ withContent[i].kind = "fallback" =>
              /\ \E k \in 1..Len(withContent[i].content) :
                   withContent[i].content[k] = elist[i].title
              /\ \E k \in 2..Len(withContent[i].content) :
                   /\ withContent[i].content[k] = elist[i].url
                   /\ withContent[i].content[k - 1] = HrefOpen

----------------------------------------------------------------------------
(* index.js: the persisted store and run() *)

Limit == 10
\* errors kept by the success path: slice(-10)
ErrorKeep == 10
Null == "null"

\* loadProcessedData's value when the file cannot be read
DefaultStore ==
  [lastProcessed |-> Null,
   processedReleases |-> <<>>,
   stats |-> [totalProcessed |-> 0, lastRunTime |-> Null, errors |-> <<>>]]

NoFile == [present |-> FALSE, store |-> DefaultStore]
File(store) == [present |-> TRUE, store |-> store]

\* q.slice(-n)
LastN(q, n) == IF Len(q) <= n THEN q ELSE SubSeq(q, Len(q) - n + 1, Len(q))
\* q.slice(0, n)
FirstN(q, n) == IF Len(q) <= n THEN q ELSE SubSeq(q, 1, n)

StoreIds(store) ==
  {store.processedReleases[i].id : i \in 1..Len(store.processedReleases)}

KeepAllReleases(releases, store) == releases

\* filterNewReleases
FilterNewReleases(releases, store) ==
  SelectSeq(releases, LAMBDA r : r.id \notin StoreIds(store))

\* getLatestReleases(limit) for the records parsed from the page
GetLatestReleases(page, cutoffStr, off, nowDay) ==
  LET releases == FetchPressReleaseList(Scrape(page, off, nowDay), cutoffStr, off)
      latest == FirstN(releases, Limit)
  IN [i \in 1..Len(latest) |-> WithContent(latest[i])]

\* a store whose counter counts every record of the batch
StoreCountingAll(store, res, nowDay) ==
  [lastProcessed |-> nowDay,
   processedReleases |-> store.processedReleases \o
     [i \in 1..Len(res.created) |->
        [id |-> res.created[i].release.id,
         title |-> res.created[i].release.title,
         webflowId |-> res.created[i].webflowItem.id,
         processedAt |-> nowDay]],
   stats |->
     [totalProcessed |-> store.stats.totalProcessed + Len(res.created) +
                           Len(res.skipped) + Len(res.errors),
      lastRunTime |-> nowDay,
      errors |-> LastN(LastN(store.stats.errors, ErrorKeep) \o
                   [i \in 1..Len(res.errors) |->
                      [title |-> res.errors[i].release.title,
                       error |-> res.errors[i].error,
                       timestamp |-> nowDay]], ErrorKeep)]]

StoreUnmerged(store, res, nowDay) == [store EXCEPT !.lastProcessed = nowDay]

\* updatedProcessedData (index.js 127-152)
UpdatedStore(store, res, nowDay) ==
  [lastProcessed |-> nowDay,
   processedReleases |-> store.processedReleases \o
     [i \in 1..Len(res.created) |->
        [id |-> res.created[i].release.id,
         title |-> res.created[i].release.title,
         webflowId |-> res.created[i].webflowItem.id,
         processedAt |-> nowDay]],
   stats |->
     [totalProcessed |-> store.stats.totalProcessed + Len(res.created),
      lastRunTime |-> nowDay,
      errors |-> LastN(LastN(store.stats.errors, ErrorKeep) \o
                   [i \in 1..Len(res.errors) |->
                      [title |-> res.errors[i].release.title,
                       error |-> res.errors[i].error,
                       timestamp |-> nowDay]], ErrorKeep)]]

\* the catch of run(): the store is loaded again and the error pushed
WithFatalError(store, message, nowDay) ==
  [store EXCEPT !.stats.errors =
     Append(@, [error |-> message, timestamp |-> nowDay, fatal |-> TRUE])]

otherThanRun == <<hostOffset, keyVars, listVars, cfgPublish, extVars, histVars, mainVars, storeVars, parseVars, retryVars, pipeVars, slugVars, cleanVars, evVars, twiceVars>>

\* the process ends: nothing of it stays in memory
MemoryCleared ==
  /\ processedData' = DefaultStore
  /\ loadOk' = FALSE
  /\ allReleases' = <<>>
  /\ pressReleases' = <<>>
  /\ results' = NoResults
  /\ cpc' = "idle"
  /\ idx' = 0
  /\ attempt' = 0
  /\ pubAttempt' = 0
  /\ createdItem' = <<>>
  /\ callBase' = 0
  /\ checked' = <<>>

\* records for which this run has created remote items
CreatedThisRun ==
  IF rpc = "publish" THEN {remote[k].of : k \in NewItems} ELSE {}

\* run() starts and loadProcessedData reads the file, or finds none
LoadRead ==
  /\ rpc = "idle"
  /\ processedData' = disk.store
  /\ loadOk' = disk.present
  /\ rpc' = "connect"
  /\ UNCHANGED <<disk, allReleases, exitCode, lost, savedKeys, unread, recent,
                 rows, cutoff, lpc, today, pubVars>>
  /\ UNCHANGED <<hostOffset, keyVars, cfgPublish, extVars, histVars, twiceVars,
                 storeVars, parseVars, retryVars, pipeVars, slugVars, cleanVars, evVars>>

RunLoadOk == LoadRead /\ UNCHANGED mainVars

\* run() starts and the file is there but cannot be read or parsed
LoadFallback ==
  /\ rpc = "idle"
  /\ disk.present
  /\ failures < MaxFailures
  /\ failures' = failures + 1
  /\ processedData' = DefaultStore
  /\ loadOk' = FALSE
  /\ unread' = TRUE
  /\ rpc' = "connect"
  /\ UNCHANGED <<disk, allReleases, exitCode, lost, savedKeys, recent, rows,
                 cutoff, lpc, today>>
  /\ UNCHANGED <<remote, pressReleases, results, cpc, idx, attempt, pubAttempt,
                 createdItem, callBase, checked>>
  /\ UNCHANGED <<hostOffset, keyVars, cfgPublish, extVars, histVars, twiceVars,
                 storeVars, parseVars, retryVars, pipeVars, slugVars, cleanVars, evVars>>

RunLoadFail == LoadFallback /\ UNCHANGED mainVars

\* testConnection succeeds
ConnectOk ==
  /\ rpc = "connect"
  /\ rpc' = "fetch"
  /\ UNCHANGED <<disk, processedData, loadOk, allReleases, exitCode, lost,
                 savedKeys, unread, recent, rows, cutoff, lpc, today, pubVars>>
  /\ UNCHANGED <<hostOffset, keyVars, cfgPublish, extVars, histVars, mainVars, storeVars, parseVars, retryVars, pipeVars, slugVars, cleanVars, evVars, twiceVars>>

\* isWithinScheduledHours is false at this hour: run() returns at once
SkipOutsideHours ==
  /\ rpc = "connect"
  /\ rpc' = "idle"
  /\ exitCode' = 0
  /\ MemoryCleared
  /\ UNCHANGED <<disk, lost, savedKeys, unread, recent, rows, cutoff, lpc,
                 today, remote, failures>>
  /\ UNCHANGED <<hostOffset, keyVars, cfgPublish, extVars, histVars, mainVars, storeVars, parseVars, retryVars, pipeVars, slugVars, cleanVars, evVars, twiceVars>>

\* testConnection returns false: run() throws
ConnectFail ==
  /\ rpc = "connect"
  /\ failures < MaxFailures
  /\ failures' = failures + 1
  /\ rpc' = "fatal"
  /\ UNCHANGED <<disk, processedData, loadOk, allReleases, exitCode, lost,
                 savedKeys, unread, recent, rows, cutoff, lpc, today>>
  /\ UNCHANGED <<remote, pressReleases, results, cpc, idx, attempt, pubAttempt,
                 createdItem, callBase, checked>>
  /\ UNCHANGED <<hostOffset, keyVars, cfgPublish, extVars, histVars, mainVars, storeVars, parseVars, retryVars, pipeVars, slugVars, cleanVars, evVars, twiceVars>>

\* getLatestReleases returns; run() filters and, if anything is new, calls
\* createItems; otherwise it returns without saving
FetchOk ==
  /\ rpc = "fetch"
  /\ recent' = FetchPressReleaseList(Scrape(rows, hostOffset, today), cutoff,
                                     hostOffset)
  /\ LET got == GetLatestReleases(rows, cutoff, hostOffset, today)
         newReleases == FilterNewReleases(got, processedData)
     IN IF got = <<>> \/ newReleases = <<>>
          THEN /\ rpc' = "idle"
               /\ exitCode' = 0
               /\ MemoryCleared
          ELSE /\ rpc' = "publish"
               /\ allReleases' = got
               /\ CallCreateItems(newReleases)
               /\ UNCHANGED <<processedData, loadOk, exitCode>>
  /\ UNCHANGED <<disk, lost, savedKeys, unread, rows, cutoff, lpc, today, remote,
                 failures>>
  /\ UNCHANGED <<hostOffset, keyVars, cfgPublish, extVars, histVars, mainVars, storeVars, parseVars, retryVars, pipeVars, slugVars, cleanVars, evVars, twiceVars>>

\* the listing request fails on every try: getLatestReleases rethrows
FetchFail ==
  /\ rpc = "fetch"
  /\ failures < MaxFailures
  /\ failures' = failures + 1
  /\ rpc' = "fatal"
  /\ UNCHANGED <<disk, processedData, loadOk, allReleases, exitCode, lost,
                 savedKeys, unread, recent, rows, cutoff, lpc, today>>
  /\ UNCHANGED <<remote, pressReleases, results, cpc, idx, attempt, pubAttempt,
                 createdItem, callBase, checked>>
  /\ UNCHANGED <<hostOffset, keyVars, cfgPublish, extVars, histVars, mainVars, storeVars, parseVars, retryVars, pipeVars, slugVars, cleanVars, evVars, twiceVars>>

\* createItems has returned and the updated store is written
PersistOk ==
  /\ rpc = "publish"
  /\ cpc = "returned"
  /\ disk' = File(UpdatedStore(processedData, results, today))
  /\ savedKeys' = savedKeys \cup
       {results.created[i].release.id : i \in 1..Len(results.created)}
  /\ rpc' = "idle"
  /\ exitCode' = 0
  /\ MemoryCleared
  /\ UNCHANGED <<lost, unread, recent, rows, cutoff, lpc, today, remote,
                 failures>>
  /\ UNCHANGED <<hostOffset, keyVars, cfgPublish, extVars, histVars, mainVars, storeVars, parseVars, retryVars, pipeVars, slugVars, cleanVars, evVars, twiceVars>>

\* createItems has returned and writeFile fails: logged, the run ends
PersistFail ==
  /\ rpc = "publish"
  /\ cpc = "returned"
  /\ failures < MaxFailures
  /\ failures' = failures + 1
  /\ lost' = lost \cup CreatedThisRun
  /\ rpc' = "idle"
  /\ exitCode' = 0
  /\ MemoryCleared
  /\ UNCHANGED <<disk, savedKeys, unread, recent, rows, cutoff, lpc, today, remote>>
  /\ UNCHANGED <<hostOffset, keyVars, cfgPublish, extVars, histVars, mainVars, storeVars, parseVars, retryVars, pipeVars, slugVars, cleanVars, evVars, twiceVars>>

\* the catch of run(): error appended to the stored history, exit(1)
FatalExit ==
  /\ rpc = "fatal"
  /\ disk' = File(WithFatalError(disk.store, "fatal", today))
  /\ rpc' = "idle"
  /\ exitCode' = 1
  /\ MemoryCleared
  /\ UNCHANGED <<lost, savedKeys, unread, recent, rows, cutoff, lpc, today, remote,
                 failures>>
  /\ UNCHANGED <<hostOffset, keyVars, cfgPublish, extVars, histVars, mainVars, storeVars, parseVars, retryVars, pipeVars, slugVars, cleanVars, evVars, twiceVars>>

\* the catch of run() when its own loadProcessedData cannot read the file:
\* the default store with the error is written over it
FatalExitLoadFail ==
  /\ rpc = "fatal"
  /\ disk.present
  /\ failures < MaxFailures
  /\ failures' = failures + 1
  /\ unread' = TRUE
  /\ disk' = File(WithFatalError(DefaultStore, "fatal", today))
  /\ rpc' = "idle"
  /\ exitCode' = 1
  /\ MemoryCleared
  /\ UNCHANGED <<lost, savedKeys, recent, rows, cutoff, lpc, today, remote>>
  /\ UNCHANGED <<hostOffset, keyVars, cfgPublish, extVars, histVars, mainVars, storeVars, parseVars, retryVars, pipeVars, slugVars, cleanVars, evVars, twiceVars>>

\* the catch of run() when its saveProcessedData fails: logged, exit(1)
FatalExitSaveFail ==
  /\ rpc = "fatal"
  /\ failures < MaxFailures
  /\ failures' = failures + 1
  /\ rpc' = "idle"
  /\ exitCode' = 1
  /\ MemoryCleared
  /\ UNCHANGED <<disk, lost, savedKeys, unread, recent, rows, cutoff, lpc, today,
                 remote>>
  /\ UNCHANGED <<hostOffset, keyVars, cfgPublish, extVars, histVars, mainVars, storeVars, parseVars, retryVars, pipeVars, slugVars, cleanVars, evVars, twiceVars>>

\* the process is killed while a request is outstanding
Crash ==
  /\ rpc \in {"connect", "fetch", "publish"}
  /\ failures < MaxFailures
  /\ failures' = failures + 1
  /\ lost' = lost \cup CreatedThisRun
  /\ rpc' = "idle"
  /\ exitCode' = 1
  /\ MemoryCleared
  /\ UNCHANGED <<disk, savedKeys, unread, recent, rows, cutoff, lpc, today, remote>>
  /\ UNCHANGED <<hostOffset, keyVars, cfgPublish, extVars, histVars, mainVars, storeVars, parseVars, retryVars, pipeVars, slugVars, cleanVars, evVars, twiceVars>>

\* between two runs the UTC day changes
DayPasses ==
  /\ rpc = "idle"
  /\ today < FirstDay + MaxDays
  /\ today' = today + 1
  /\ UNCHANGED <<hostOffset, keyVars, listVars, cfgPublish, extVars, histVars, mainVars, storeVars, parseVars, retryVars, pipeVars, slugVars, cleanVars, evVars, pubVars, twiceVars,
                 runVars>>

\* pages of the listing: rows of the pool, in the pool's order
RunPagesOf(n) ==
  {[i \in 1..n |-> BatchPool[f[i]]] :
     f \in {g \in [1..n -> 1..Len(BatchPool)] :
              \A i, j \in 1..n : i < j => g[i] < g[j]}}

Init ==
  /\ hostOffset = 2
  /\ today = FirstDay
  /\ KeyIdle
  /\ ExtIdle
  /\ HistIdle
  /\ MainIdle
  /\ StoreIdle
  /\ ParseIdle
  /\ RetryIdle
  /\ PipeIdle
  /\ SlugIdle
  /\ CleanIdle
  /\ EvIdle
  /\ lpc = "off"
  /\ \E n \in 1..MaxRows : rows \in RunPagesOf(n)
  /\ cutoff \in Cutoffs
  /\ recent = <<>>
  /\ cfgPublish \in BOOLEAN
  /\ remote = <<>>
  /\ pressReleases = <<>>
  /\ results = NoResults
  /\ cpc = "idle"
  /\ idx = 0
  /\ attempt = 0
  /\ pubAttempt = 0
  /\ createdItem = <<>>
  /\ failures = 0
  /\ callBase = 0
  /\ checked = <<>>
  /\ calls = 0
  /\ firstResults = <<>>
  /\ rpc = "idle"
  /\ disk = NoFile
  /\ processedData = DefaultStore
  /\ loadOk = FALSE
  /\ allReleases = <<>>
  /\ exitCode = 0
  /\ lost = {}
  /\ savedKeys = {}
  /\ unread = FALSE

Publishing == rpc = "publish"

Next ==
  \/ RunLoadOk
  \/ RunLoadFail
  \/ SkipOutsideHours
  \/ ConnectOk
  \/ ConnectFail
  \/ FetchOk
  \/ FetchFail
  \/ Publishing /\ ItemExistsOk
  \/ Publishing /\ ItemExistsFail
  \/ Publishing /\ PostOk
  \/ Publishing /\ PostFail
  \/ Publishing /\ PublishOk
  \/ Publishing /\ PublishFail
  \/ PersistOk
  \/ PersistFail
  \/ FatalExit
  \/ FatalExitLoadFail
  \/ FatalExitSaveFail
  \/ Crash
  \/ DayPasses

Spec == Init /\ [][Next]_vars

----------------------------------------------------------------------------
(* index.js: main(). One process: initialize(), then run(testMode).  The  *)
(* schedule is the one the README shows; the configuration file itself is *)
(* not part of the source.  With at most MaxRows rows on the page the     *)
(* limit of 3 that test mode passes to getLatestReleases cuts nothing.    *)

StartHour == 6
EndHour == 23
\* local hours around both ends of the window
Hours == {StartHour - 1, StartHour, EndHour - 1, EndHour}

AlwaysWithin(currentHour) == TRUE

\* utils.js isWithinScheduledHours, of the local hour
IsWithinScheduledHours(currentHour) ==
  currentHour >= StartHour /\ currentHour < EndHour

\* the condition of the early return of run()
GateClosed == ~testMode /\ ~IsWithinScheduledHours(hour)

otherThanMain == <<hostOffset, today, keyVars, listVars, cfgPublish, pubVars,
                   twiceVars, extVars, histVars, storeVars, parseVars, retryVars, pipeVars, slugVars, cleanVars, evVars>>

\* initialize(): the configuration loads and the WebflowClient is built
InitializeOk ==
  /\ mpc = "start"
  /\ credentials
  /\ mpc' = "ready"
  /\ UNCHANGED <<credentials, testMode, hour, runVars>>
  /\ UNCHANGED otherThanMain

\* initialize(): the WebflowClient constructor throws on a missing
\* environment variable; the catch logs to the console and exits
InitializeFail ==
  /\ mpc = "start"
  /\ ~credentials
  /\ mpc' = "exited"
  /\ exitCode' = 1
  /\ UNCHANGED <<credentials, testMode, hour>>
  /\ UNCHANGED <<rpc, disk, processedData, loadOk, allReleases, lost,
                 savedKeys, unread>>
  /\ UNCHANGED otherThanMain

\* main() calls run(testMode), which loads the store
MainLoadOk ==
  /\ mpc = "ready"
  /\ mpc' = "running"
  /\ UNCHANGED <<credentials, testMode, hour>>
  /\ LoadRead

MainLoadFail ==
  /\ mpc = "ready"
  /\ mpc' = "running"
  /\ UNCHANGED <<credentials, testMode, hour>>
  /\ LoadFallback

Running == mpc = "running"

\* a store left by an earlier run that failed
EarlierStore == WithFatalError(DefaultStore, "fatal", FirstDay - 1)

MainInit ==
  /\ hostOffset = 2
  /\ today = FirstDay
  /\ KeyIdle
  /\ ExtIdle
  /\ HistIdle
  /\ StoreIdle
  /\ ParseIdle
  /\ RetryIdle
  /\ PipeIdle
  /\ SlugIdle
  /\ CleanIdle
  /\ EvIdle
  /\ lpc = "off"
  /\ \E n \in 1..MaxRows : rows \in RunPagesOf(n)
  /\ cutoff \in Cutoffs
  /\ recent = <<>>
  /\ cfgPublish \in BOOLEAN
  /\ remote = <<>>
  /\ pressReleases = <<>>
  /\ results = NoResults
  /\ cpc = "idle"
  /\ idx = 0
  /\ attempt = 0
  /\ pubAttempt = 0
  /\ createdItem = <<>>
  /\ failures = 0
  /\ callBase = 0
  /\ checked = <<>>
  /\ calls = 0
  /\ firstResults = <<>>
  /\ rpc = "idle"
  /\ disk \in {NoFile, File(EarlierStore)}
  /\ processedData = DefaultStore
  /\ loadOk = FALSE
  /\ allReleases = <<>>
  /\ exitCode = 0
  /\ lost = {}
  /\ savedKeys = {}
  /\ unread = FALSE
  /\ mpc = "start"
  /\ credentials \in BOOLEAN
  /\ testMode \in BOOLEAN
  /\ hour \in Hours

MainNext ==
  \/ InitializeOk
  \/ InitializeFail
  \/ MainLoadOk
  \/ MainLoadFail
  \/ Running /\ GateClosed /\ SkipOutsideHours
  \/ Running /\ ~GateClosed /\ ConnectOk
  \/ Running /\ ~GateClosed /\ ConnectFail
  \/ Running /\ FetchOk
  \/ Running /\ FetchFail
  \/ Running /\ Publishing /\ ItemExistsOk
  \/ Running /\ Publishing /\ ItemExistsFail
  \/ Running /\ Publishing /\ PostOk
  \/ Running /\ Publishing /\ PostFail
  \/ Running /\ Publishing /\ PublishOk
  \/ Running /\ Publishing /\ PublishFail
  \/ Running /\ PersistOk
  \/ Running /\ PersistFail
  \/ Running /\ FatalExit
  \/ Running /\ FatalExitLoadFail
  \/ Running /\ FatalExitSaveFail

SpecMain == MainInit /\ [][MainNext]_vars

----------------------------------------------------------------------------
(* index.js: saveProcessedData followed by loadProcessedData.  The file    *)
(* holds the JSON document that JSON.stringify writes: an object keeps the *)
(* properties whose value is not undefined, in order; an array keeps every *)
(* element; strings, finite numbers and null are written as they are.      *)

Undefined == "undefined"

\* a string, a finite number or null, or a value built of these only
JValue(v) == [t |-> "value", v |-> v]
JArray(items) == [t |-> "array", items |-> items]
JObject(members) == [t |-> "object", members |-> members]

\* the member of an object document with the given key; <<>> when absent
Member(doc, key) ==
  LET hits == SelectSeq(doc.members, LAMBDA m : m[1] = key)
  IN IF hits = <<>> THEN <<>> ELSE hits[1][2]
HasMember(doc, key) == \E i \in 1..Len(doc.members) : doc.members[i][1] = key

\* an entry of processedReleases; webflowId is item.webflowItem.id, which is
\* undefined when the response of the POST carried no id
StringifyEntry(e) ==
  JObject(<<<<"id", JValue(e.id)>>, <<"title", JValue(e.title)>>>>
          \o (IF e.webflowId = Undefined
                THEN <<>>
                ELSE <<<<"webflowId", JValue(e.webflowId)>>>>)
          \o <<<<"processedAt", JValue(e.processedAt)>>>>)

\* JSON.stringify(data, null, 2) of a store
Stringify(store) ==
  JObject(<<
    <<"lastProcessed", JValue(store.lastProcessed)>>,
    <<"processedReleases",
      JArray([i \in 1..Len(store.processedReleases) |->
                StringifyEntry(store.processedReleases[i])])>>,
    <<"stats",
      JObject(<<
        <<"totalProcessed", JValue(store.stats.totalProcessed)>>,
        <<"lastRunTime", JValue(store.stats.lastRunTime)>>,
        <<"errors",
          JArray([i \in 1..Len(store.stats.errors) |->
                    JValue(store.stats.errors[i])])>>>>)>>>>)

ParseEntry(doc) ==
  IF HasMember(doc, "webflowId")
    THEN [id |-> Member(doc, "id").v,
          title |-> Member(doc, "title").v,
          webflowId |-> Member(doc, "webflowId").v,
          processedAt |-> Member(doc, "processedAt").v]
    ELSE [id |-> Member(doc, "id").v,
          title |-> Member(doc, "title").v,
          processedAt |-> Member(doc, "processedAt").v]

\* JSON.parse of a document that Stringify wrote
Parse(doc) ==
  LET rel == Member(doc, "processedReleases").items
      stats == Member(doc, "stats")
      errs == Member(stats, "errors").items
  IN [lastProcessed |-> Member(doc, "lastProcessed").v,
      processedReleases |-> [i \in 1..Len(rel) |-> ParseEntry(rel[i])],
      stats |-> [totalProcessed |-> Member(stats, "totalProcessed").v,
                 lastRunTime |-> Member(stats, "lastRunTime").v,
                 errors |-> [i \in 1..Len(errs) |-> errs[i].v]]]

NoStoreFile == [present |-> FALSE, doc |-> JObject(<<>>)]
StoreFile(doc) == [present |-> TRUE, doc |-> doc]

\* results of a createItems call that created the first n records of the
\* pool; w[i] is the id in the response of the i-th POST
CreatedResults(n, w) ==
  [created |-> [i \in 1..n |->
                  [release |-> MakeRelease(BatchPool[i].title,
                                           BatchPool[i].date, 0, FirstDay),
                   webflowItem |-> [id |-> w[i]]]],
   skipped |-> <<>>,
   errors |-> <<>>]

\* stores that run() hands to saveProcessedData after createItems
PublishedStores ==
  {UpdatedStore(base, CreatedResults(n, w), FirstDay) :
     base \in {DefaultStore, EarlierStore},
     n \in 0..MaxRows, w \in [1..MaxRows -> {"item", Undefined}]}

\* stores that the catch of run() hands to saveProcessedData
FailedStores ==
  {WithFatalError(base, "fatal", FirstDay) :
     base \in {DefaultStore, EarlierStore}}

otherThanStore == <<hostOffset, today, keyVars, listVars, cfgPublish, pubVars,
                    twiceVars, runVars, extVars, histVars, mainVars,
                   parseVars, retryVars, pipeVars, slugVars, cleanVars, evVars>>

\* writeFile succeeds
SaveOk ==
  /\ spc = "save"
  /\ sfile' = StoreFile(Stringify(sdata))
  /\ spc' = "load"
  /\ UNCHANGED <<sdata, sloaded>>
  /\ UNCHANGED otherThanStore

\* writeFile fails: the catch of saveProcessedData logs the error
SaveFail ==
  /\ spc = "save"
  /\ spc' = "load"
  /\ UNCHANGED <<sdata, sfile, sloaded>>
  /\ UNCHANGED otherThanStore

\* readFile and JSON.parse succeed
LoadOk ==
  /\ spc = "load"
  /\ sfile.present
  /\ sloaded' = Parse(sfile.doc)
  /\ spc' = "done"
  /\ UNCHANGED <<sdata, sfile>>
  /\ UNCHANGED otherThanStore

\* readFile fails (no file, or the file cannot be read): the default store
LoadFail ==
  /\ spc = "load"
  /\ sloaded' = DefaultStore
  /\ spc' = "done"
  /\ UNCHANGED <<sdata, sfile>>
  /\ UNCHANGED otherThanStore

StoreInit ==
  /\ hostOffset = 0
  /\ today = FirstDay
  /\ KeyIdle
  /\ lpc = "off" /\ rows = <<>> /\ cutoff = <<>> /\ recent = <<>>
  /\ PubIdle
  /\ RunIdle
  /\ ExtIdle
  /\ HistIdle
  /\ MainIdle
  /\ ParseIdle
  /\ RetryIdle
  /\ PipeIdle
  /\ SlugIdle
  /\ CleanIdle
  /\ EvIdle
  /\ spc = "save"
  /\ \/ sdata \in PublishedStores
     \/ sdata \in FailedStores
  /\ sfile \in {NoStoreFile, StoreFile(Stringify(EarlierStore))}
  /\ sloaded = DefaultStore

StoreNext ==
  \/ SaveOk
  \/ SaveFail
  \/ LoadOk
  \/ LoadFail

SpecStore == StoreInit /\ [][StoreNext]_vars

\* the dedup keys of a store, in stored order
KeySeq(store) ==
  [i \in 1..Len(store.processedReleases) |-> store.processedReleases[i].id]

\* C20 (as claimed): after saveProcessedData and then loadProcessedData, the
\* loaded store has the same sequence of ids in processedReleases and the
\* same stats.totalProcessed as the store that was handed to the save.
C20_RoundTrip ==
  spc = "done" =>
    /\ KeySeq(sloaded) = KeySeq(sdata)
    /\ sloaded.stats.totalProcessed = sdata.stats.totalProcessed

----------------------------------------------------------------------------
(* Store history: what a sequence of runs leaves in stats.errors. Each run *)
(* is taken by its outcome: createItems returned with some records in      *)
(* errors and the store was saved, run() returned early, or run() threw.   *)

\* results of a createItems call in which k records failed and none was new
FailedResults(k) ==
  [created |-> <<>>, skipped |-> <<>>,
   errors |-> [i \in 1..k |->
                 [release |-> [title |-> RowTitle(i)],
                  error |-> [op |-> "create", try |-> RetryAttempts - 1]]]]

otherThanHist == <<hostOffset, today, keyVars, listVars, cfgPublish, pubVars,
                   twiceVars, runVars, extVars, mainVars,
                   storeVars, parseVars, retryVars, pipeVars, slugVars, cleanVars, evVars>>

\* a run that reaches the save with k failed records (index.js 127-154)
HistSuccess ==
  /\ hclock < MaxHistRuns
  /\ \E k \in 0..MaxRows :
       /\ hstore' = UpdatedStore(hstore, FailedResults(k), hclock)
       /\ hlog' = hlog \o
            [i \in 1..k |->
               [title |-> RowTitle(i),
                error |-> [op |-> "create", try |-> RetryAttempts - 1],
                timestamp |-> hclock]]
  /\ hclock' = hclock + 1
  /\ UNCHANGED otherThanHist

\* a run that finds nothing new and returns without saving
HistNoop ==
  /\ hclock < MaxHistRuns
  /\ hclock' = hclock + 1
  /\ UNCHANGED <<hstore, hlog>>
  /\ UNCHANGED otherThanHist

\* a run that throws: the catch loads the store, pushes the error and saves
HistFatal ==
  /\ hclock < MaxHistRuns
  /\ hstore' = WithFatalError(hstore, "fatal", hclock)
  /\ hlog' = Append(hlog, [error |-> "fatal", timestamp |-> hclock,
                           fatal |-> TRUE])
  /\ hclock' = hclock + 1
  /\ UNCHANGED otherThanHist

HistInit ==
  /\ hostOffset = 0
  /\ today = FirstDay
  /\ KeyIdle
  /\ lpc = "off" /\ rows = <<>> /\ cutoff = <<>> /\ recent = <<>>
  /\ PubIdle
  /\ RunIdle
  /\ ExtIdle
  /\ MainIdle
  /\ StoreIdle
  /\ ParseIdle
  /\ RetryIdle
  /\ PipeIdle
  /\ SlugIdle
  /\ CleanIdle
  /\ EvIdle
  /\ hstore = DefaultStore
  /\ hclock = 0
  /\ hlog = <<>>

HistNext ==
  \/ HistSuccess
  \/ HistNoop
  \/ HistFatal

SpecHistory == HistInit /\ [][HistNext]_vars

\* C15 (as claimed): after any sequence of runs the persisted stats.errors
\* holds at most 10 entries, and they are the most recent ones recorded.
C15_BoundedErrors ==
  /\ Len(hstore.stats.errors) <= ErrorKeep
  /\ hstore.stats.errors = LastN(hlog, ErrorKeep)

----------------------------------------------------------------------------
(* Claims about run() *)

\* p holds elements of a, in a's order
IsSubSeq(p, a) ==
  \E f \in [1..Len(p) -> 1..Len(a)] :
    /\ \A i, j \in 1..Len(p) : i < j => f[i] < f[j]
    /\ \A i \in 1..Len(p) : a[f[i]] = p[i]

CreatedReleases == [i \in 1..Len(results.created) |-> results.created[i].release]

\* getLatestReleases, filterNewReleases and createItems keep the order of
\* the sorted list, and the requests go out record by record
OrderPreserved ==
  /\ IsSubSeq(allReleases, [i \in 1..Len(recent) |-> WithContent(recent[i])])
  /\ IsSubSeq(pressReleases, allReleases)
  /\ IsSubSeq(CreatedReleases, pressReleases)
  /\ checked = [i \in 1..Len(checked) |-> i]

\* C3 (as claimed): when createItems returns in a run, every record for which
\* an earlier run created an item and ended without saving the store is in
\* skipped, and this run created no item for it, whatever the existence
\* check's request did.
C3_CrashTolerated ==
  (rpc = "publish" /\ cpc = "returned") =>
    \A i \in 1..Len(pressReleases) :
      RecOf(pressReleases[i]) \in lost =>
        /\ pressReleases[i] \in SeqRange(results.skipped)
        /\ ~\E k \in NewItems : remote[k].of = RecOf(pressReleases[i])

\* C4 (as claimed): in every run after one that created a record with id k
\* and saved the store, no record with id k is handed to createItems.
C4_CrossRunDedup ==
  rpc = "publish" =>
    \A i \in 1..Len(pressReleases) : pressReleases[i].id \notin savedKeys

\* C4 (amended): the records handed to createItems are exactly the fetched
\* records whose id is absent from the loaded store, in fetched order; and
\* as long as no load has fallen back to the default store over an existing
\* file, no record whose id was created and saved by an earlier run is among
\* them.
C4_CrossRunDedupAmended ==
  rpc = "publish" =>
    /\ \A i \in 1..Len(pressReleases) :
         pressReleases[i].id \notin StoreIds(processedData)
    /\ \A j \in 1..Len(allReleases) :
         allReleases[j].id \notin StoreIds(processedData)
           => allReleases[j] \in SeqRange(pressReleases)
    /\ IsSubSeq(pressReleases, allReleases)
    /\ ~unread =>
         \A i \in 1..Len(pressReleases) : pressReleases[i].id \notin savedKeys

\* C4 witness: a run that read the store is publishing, and a fetched record
\* whose id an earlier run created and saved was left out of the list.
C4_Witness ==
  /\ rpc = "publish"
  /\ loadOk
  /\ ~unread
  /\ \E j \in 1..Len(allReleases) :
       /\ allReleases[j].id \in savedKeys
       /\ allReleases[j] \notin SeqRange(pressReleases)

\* C8 (as claimed): in a run the requests of createItems go out record by
\* record in list order, no step between the sort and the created list
\* reorders records, and the list is newest first by normalized date.
C8_PublishOrder ==
  rpc = "publish" =>
    /\ OrderPreserved
    /\ \A i, j \in 1..Len(pressReleases) :
         (/\ i < j
          /\ NormalizedDate(pressReleases[i], hostOffset).ok
          /\ NormalizedDate(pressReleases[j], hostOffset).ok)
           => NormalizedDate(pressReleases[i], hostOffset).t
                >= NormalizedDate(pressReleases[j], hostOffset).t

\* the step in which run() saves the updated store after createItems
IsPersistStep ==
  /\ rpc = "publish"
  /\ cpc = "returned"
  /\ rpc' = "idle"
  /\ failures' = failures

\* C14: when a run saves after createItems, the saved processedReleases is
\* the loaded sequence followed by one entry per created item, in creation
\* order, each with that record's id and the id of a remote item made for
\* that record; totalProcessed grows by the number of created items; skipped
\* and failed records add nothing.
C14_SuccessMerge ==
  [][IsPersistStep =>
       LET old == processedData.processedReleases
           new == disk'.store.processedReleases
           made == results.created
       IN /\ disk'.present
          /\ Len(new) = Len(old) + Len(made)
          /\ SubSeq(new, 1, Len(old)) = old
          /\ \A i \in 1..Len(made) :
               /\ new[Len(old) + i].id = made[i].release.id
               /\ new[Len(old) + i].webflowId = made[i].webflowItem.id
               /\ made[i].webflowItem.id \in 1..Len(remote)
               /\ remote[made[i].webflowItem.id].of = RecOf(made[i].release)
          /\ disk'.store.stats.totalProcessed
               = processedData.stats.totalProcessed + Len(made)]_vars

\* C14 witness: the saved store holds an entry of an earlier day followed by
\* an entry a later run merged in, and the count agrees.
C14_Witness ==
  /\ rpc = "idle"
  /\ disk.present
  /\ Len(disk.store.processedReleases) >= 2
  /\ disk.store.processedReleases[1].processedAt
       < disk.store.processedReleases[2].processedAt
  /\ disk.store.stats.totalProcessed = Len(disk.store.processedReleases)

\* p is a prefix of q
IsPrefix(p, q) == Len(p) <= Len(q) /\ SubSeq(q, 1, Len(p)) = p

\* C16 (as claimed): every step of every run leaves the persisted
\* processedReleases with the previously persisted sequence as a prefix,
\* also in a run that fails fatally or whose load of the store failed.
C16_AppendOnly ==
  [][IsPrefix(disk.store.processedReleases,
              disk'.store.processedReleases)]_vars

\* the local hour is outside the window of the configuration
OutsideWindow == hour < StartHour \/ hour >= EndHour

\* C17: when run() has loaded the store, then outside test mode and outside
\* the window its next step ends the run with exit status 0 and leaves the
\* file, the CMS items, the fetched list and the existence checks as they
\* were; in test mode its next step is the outcome of testConnection,
\* whatever the hour.
C17_ScheduleGate ==
  [][(Running /\ rpc = "connect") =>
       /\ (~testMode /\ OutsideWindow) =>
            /\ rpc' = "idle"
            /\ exitCode' = 0
            /\ disk' = disk
            /\ remote' = remote
            /\ recent' = recent
            /\ checked' = checked
       /\ testMode => rpc' \in {"fetch", "fatal"}]_vars

\* C17 witness: a run outside test mode and outside the window has ended
\* over an existing store file.
C17_Witness ==
  /\ Running
  /\ rpc = "idle"
  /\ ~testMode
  /\ OutsideWindow
  /\ disk = File(EarlierStore)

\* C18 (as claimed): the step that handles missing credentials, and the
\* catch of run() that the failed pre-flight check enters, exit with status 1
\* without a listing fetch or a CMS write and leave a new last entry, stamped
\* now, in the persisted error history.
C18_FatalInit ==
  [][((mpc = "start" /\ ~credentials) \/ (Running /\ rpc = "fatal")) =>
       /\ exitCode' = 1
       /\ remote' = remote
       /\ recent' = recent
       /\ disk'.present
       /\ disk' # disk
       /\ LET e == disk'.store.stats.errors
          IN Len(e) > 0 /\ e[Len(e)].timestamp = today]_vars

\* C19 (as claimed): no step taken while the listing is being fetched or the
\* records are being published leads to the catch of run() or to a non-zero
\* exit status.
C19_TransientNotFatal ==
  [][(Running /\ rpc \in {"fetch", "publish"}) =>
       (rpc' # "fatal" /\ exitCode' = 0)]_vars

\* C23 (as claimed): with the window 6 to 23 a run outside test mode goes on
\* to testConnection at every hour from 6 through 23, and ends at the gate
\* at the hours 0 through 5.
C23_DocumentedWindow ==
  [][(Running /\ rpc = "connect" /\ ~testMode) =>
       /\ hour \in 6..23 => rpc' \in {"fetch", "fatal"}
       /\ hour \in 0..5 => rpc' = "idle"]_vars

\* C25 (as claimed): a run that has passed the gate and ends with exit
\* status 0, its last step not a failed write, ends with the store file
\* written and stats.lastRunTime set to now, also when nothing was fetched
\* or nothing was new.
C25_PersistBeforeDone ==
  [][(/\ rpc \in {"fetch", "publish"}
      /\ rpc' = "idle"
      /\ exitCode' = 0
      /\ failures' = failures) =>
       /\ disk'.present
       /\ ToString(disk'.store.stats.lastRunTime) = ToString(today)]_vars

\* C24 (as claimed): two records of a list with the same title and different
\* date texts have different ids and different slugs, and when the first
\* createItems call on the list returns without a failed request both are
\* in created.
C24_SameTitleOtherDate ==
  \A i, j \in 1..Len(pressReleases) :
    (/\ i # j
     /\ pressReleases[i].title = pressReleases[j].title
     /\ pressReleases[i].dateText # pressReleases[j].dateText) =>
      /\ pressReleases[i].id # pressReleases[j].id
      /\ SlugOf(pressReleases[i]) # SlugOf(pressReleases[j])
      /\ (calls = 1 /\ cpc = "returned" /\ failures = 0) =>
           {pressReleases[i], pressReleases[j]} \subseteq
             SeqRange(CreatedReleases)

(***************************************************************************)
(* utils.js: retry(fn, attempts, delay)                                    *)
(***************************************************************************)
MaxAttempts == 3
Delays == {1000, 2000}
FnValues == {1, 2}     \* what fn can return
FnErrors == {1, 2}     \* what fn can throw

Event(ev, arg) == [ev |-> ev, arg |-> arg]
EventsOf(log, ev) == SelectSeq(log, LAMBDA e : e.ev = ev)
Invocations == Len(EventsOf(tlog, "call"))
Sleeps == Len(EventsOf(tlog, "sleep"))

\* the first try rethrows
IsFirstAttempt(i, n) == i = 0

\* if (i === attempts - 1) throw error
IsLastAttempt(i, n) == i = n - 1

otherThanRetry == <<hostOffset, today, keyVars, listVars, cfgPublish, pubVars,
                    twiceVars, runVars, extVars, histVars, mainVars,
                    storeVars, parseVars,
                   pipeVars, slugVars, cleanVars, evVars>>

\* for (let i = 0; i < attempts; i++) { try { return await fn()
RetryInvoke ==
  /\ tpc = "loop"
  /\ ti < attempts
  /\ tpc' = "await"
  /\ inFlight' = inFlight + 1
  /\ tlog' = Append(tlog, Event("call", ti))
  /\ UNCHANGED <<ti, attempts, delay, tresult>>
  /\ UNCHANGED otherThanRetry

\* fn()'s promise is fulfilled: retry returns its value
RetryFnOk ==
  /\ tpc = "await"
  /\ \E v \in FnValues :
       /\ tlog' = Append(tlog, Event("ok", v))
       /\ tresult' = [kind |-> "value", arg |-> v]
  /\ inFlight' = inFlight - 1
  /\ tpc' = "returned"
  /\ UNCHANGED <<ti, attempts, delay>>
  /\ UNCHANGED otherThanRetry

\* fn() throws or its promise is rejected: rethrow on the last try, else
\* go on to sleep(delay)
RetryFnFail ==
  /\ tpc = "await"
  /\ \E e \in FnErrors :
       /\ tlog' = Append(tlog, Event("fail", e))
       /\ IF IsLastAttempt(ti, attempts)
            THEN /\ tpc' = "thrown"
                 /\ tresult' = [kind |-> "error", arg |-> e]
            ELSE /\ tpc' = "sleep"
                 /\ UNCHANGED tresult
  /\ inFlight' = inFlight - 1
  /\ UNCHANGED <<ti, attempts, delay>>
  /\ UNCHANGED otherThanRetry

\* await sleep(delay); i++
RetrySleep ==
  /\ tpc = "sleep"
  /\ tlog' = Append(tlog, Event("sleep", delay))
  /\ ti' = ti + 1
  /\ tpc' = "loop"
  /\ UNCHANGED <<attempts, delay, inFlight, tresult>>
  /\ UNCHANGED otherThanRetry

\* the loop ends without a try (attempts <= 0): retry returns undefined
RetryFallThrough ==
  /\ tpc = "loop"
  /\ ~(ti < attempts)
  /\ tpc' = "returned"
  /\ tresult' = [kind |-> "undefined", arg |-> 0]
  /\ UNCHANGED <<ti, attempts, delay, inFlight, tlog>>
  /\ UNCHANGED otherThanRetry

RetryInit ==
  /\ hostOffset = 0
  /\ today = FirstDay
  /\ KeyIdle
  /\ lpc = "off" /\ rows = <<>> /\ cutoff = <<>> /\ recent = <<>>
  /\ PubIdle
  /\ RunIdle
  /\ ExtIdle
  /\ HistIdle
  /\ MainIdle
  /\ StoreIdle
  /\ ParseIdle
  /\ PipeIdle
  /\ SlugIdle
  /\ CleanIdle
  /\ EvIdle
  /\ tpc = "loop"
  /\ ti = 0
  /\ attempts \in 0..MaxAttempts
  /\ delay \in Delays
  /\ inFlight = 0
  /\ tlog = <<>>
  /\ tresult = [kind |-> "none", arg |-> 0]

RetryNext ==
  \/ RetryInvoke
  \/ RetryFnOk
  \/ RetryFnFail
  \/ RetrySleep
  \/ RetryFallThrough

SpecRetry == RetryInit /\ [][RetryNext]_vars

RetryDone == tpc \in {"returned", "thrown"}

\* C26: for attempts >= 1, retry invokes fn at most attempts times, one
\* invocation at a time; every invocation but the last one has failed and
\* was followed by exactly one sleep of the given delay, and nothing
\* follows the last one; retry returns the value of the first invocation
\* that succeeds, and after attempts failures it throws the error of the
\* last invocation.
C26_RetryProtocol ==
  attempts >= 1 =>
    /\ Invocations <= attempts
    /\ inFlight \in {0, 1}
    /\ inFlight = 1 <=> tpc = "await"
    /\ \A k \in 1..Len(tlog) :
         /\ tlog[k].ev = "call" =>
              /\ k = 1 \/ (k > 2 /\ tlog[k - 1].ev = "sleep"
                                 /\ tlog[k - 2].ev = "fail")
              /\ k < Len(tlog) => tlog[k + 1].ev \in {"ok", "fail"}
         /\ tlog[k].ev = "sleep" =>
              /\ tlog[k].arg = delay
              /\ tlog[k - 1].ev = "fail"
              /\ k < Len(tlog) => tlog[k + 1].ev = "call"
         /\ tlog[k].ev = "ok" => k = Len(tlog) /\ tpc = "returned"
    /\ RetryDone =>
         /\ Invocations >= 1
         /\ Sleeps = Invocations - 1
         /\ tlog[Len(tlog)].ev \in {"ok", "fail"}
         /\ tresult.arg = tlog[Len(tlog)].arg
    /\ tpc = "returned" =>
         /\ tlog[Len(tlog)].ev = "ok"
         /\ tresult.kind = "value"
    /\ tpc = "thrown" =>
         /\ tlog[Len(tlog)].ev = "fail"
         /\ tresult.kind = "error"
         /\ Invocations = attempts
         /\ Len(EventsOf(tlog, "fail")) = attempts

\* retry(fn, 3, delay) threw after two sleeps and three failures with
\* different errors on the last two
C26_Witness ==
  /\ attempts = 3
  /\ tpc = "thrown"
  /\ Sleeps = 2
  /\ tlog[5].ev = "fail" /\ tlog[8].ev = "fail"
  /\ tlog[5].arg # tlog[8].arg
  /\ tresult = [kind |-> "error", arg |-> tlog[8].arg]

(***************************************************************************)
(* The order of the external calls of one run: getLatestReleases extracts  *)
(* the records of the listing, filterNewReleases drops the stored ones,    *)
(* createItems checks and creates the rest.  Records are numbered in       *)
(* listing order; the log has one entry per call started and per delay.    *)
(***************************************************************************)
MaxPipe == 3

Logged(ev, r) == \E k \in 1..Len(qlog) : qlog[k] = Event(ev, r)
PosOf(ev, r) == CHOOSE k \in 1..Len(qlog) : qlog[k] = Event(ev, r)
IsRequest(e) == e.ev \in {"exists", "create"}

otherThanPipe == <<hostOffset, today, keyVars, listVars, cfgPublish, pubVars,
                   twiceVars, runVars, extVars, histVars, mainVars,
                   storeVars, parseVars, retryVars,
                   slugVars, cleanVars, evVars>>

\* getLatestReleases: await this.fetchPressReleaseContent(release)
PipeExtractStart ==
  /\ qpc = "scrape"
  /\ qi <= qn
  /\ qpc' = "extracting"
  /\ qfly' = qfly + 1
  /\ qlog' = Append(qlog, Event("extract", qi))
  /\ UNCHANGED <<qn, qi, qkept, qnew, qseen, qremote>>
  /\ UNCHANGED otherThanPipe

\* the extraction returns a record: it is pushed, then the loop waits 1000 ms
PipeExtractOk ==
  /\ qpc = "extracting"
  /\ qfly' = qfly - 1
  /\ qkept' = Append(qkept, qi)
  /\ qlog' = Append(qlog, Event("scrapeDelay", qi))
  /\ qi' = qi + 1
  /\ qpc' = "scrape"
  /\ UNCHANGED <<qn, qnew, qseen, qremote>>
  /\ UNCHANGED otherThanPipe

\* the extraction throws: the catch logs a warning, the loop goes on
PipeExtractFail ==
  /\ qpc = "extracting"
  /\ qfly' = qfly - 1
  /\ qi' = qi + 1
  /\ qpc' = "scrape"
  /\ UNCHANGED <<qn, qkept, qnew, qseen, qremote, qlog>>
  /\ UNCHANGED otherThanPipe

\* run: the two early returns, filterNewReleases, and the call of createItems
PipeFilter ==
  /\ qpc = "scrape"
  /\ qi > qn
  /\ qnew' = SelectSeq(qkept, LAMBDA r : r \notin qseen)
  /\ qpc' = IF qkept = <<>> \/ qnew' = <<>> THEN "done" ELSE "publish"
  /\ qi' = 1
  /\ UNCHANGED <<qn, qkept, qseen, qremote, qfly, qlog>>
  /\ UNCHANGED otherThanPipe

\* createItems: await this.itemExists(release)
PipeExistsStart ==
  /\ qpc = "publish"
  /\ qi <= Len(qnew)
  /\ qpc' = "checking"
  /\ qfly' = qfly + 1
  /\ qlog' = Append(qlog, Event("exists", qnew[qi]))
  /\ UNCHANGED <<qn, qi, qkept, qnew, qseen, qremote>>
  /\ UNCHANGED otherThanPipe

\* itemExists answers true: skipped.push(release); continue
PipeSkip ==
  /\ qpc = "checking"
  /\ qnew[qi] \in qremote
  /\ qfly' = qfly - 1
  /\ qi' = qi + 1
  /\ qpc' = "publish"
  /\ UNCHANGED <<qn, qkept, qnew, qseen, qremote, qlog>>
  /\ UNCHANGED otherThanPipe

\* itemExists answers false (no such item, or its request failed):
\* await this.createItem(release)
PipeCreateStart ==
  /\ qpc = "checking"
  /\ qpc' = "creating"
  /\ qlog' = Append(qlog, Event("create", qnew[qi]))
  /\ UNCHANGED <<qn, qi, qkept, qnew, qseen, qremote, qfly>>
  /\ UNCHANGED otherThanPipe

\* createItem returns the item: created.push, then the loop waits
PipeCreateOk ==
  /\ qpc = "creating"
  /\ qfly' = qfly - 1
  /\ qremote' = qremote \cup {qnew[qi]}
  /\ qlog' = Append(qlog, Event("delay", qnew[qi]))
  /\ qi' = qi + 1
  /\ qpc' = "publish"
  /\ UNCHANGED <<qn, qkept, qnew, qseen>>
  /\ UNCHANGED otherThanPipe

\* createItem throws: the catch pushes to errors, the loop goes on
PipeCreateFail ==
  /\ qpc = "creating"
  /\ qfly' = qfly - 1
  /\ qi' = qi + 1
  /\ qpc' = "publish"
  /\ UNCHANGED <<qn, qkept, qnew, qseen, qremote, qlog>>
  /\ UNCHANGED otherThanPipe

\* createItems returns its results
PipeReturn ==
  /\ qpc = "publish"
  /\ qi > Len(qnew)
  /\ qpc' = "done"
  /\ UNCHANGED <<qn, qi, qkept, qnew, qseen, qremote, qfly, qlog>>
  /\ UNCHANGED otherThanPipe

PipeInit ==
  /\ hostOffset = 0
  /\ today = FirstDay
  /\ KeyIdle
  /\ lpc = "off" /\ rows = <<>> /\ cutoff = <<>> /\ recent = <<>>
  /\ PubIdle
  /\ RunIdle
  /\ ExtIdle
  /\ HistIdle
  /\ MainIdle
  /\ StoreIdle
  /\ ParseIdle
  /\ RetryIdle
  /\ SlugIdle
  /\ CleanIdle
  /\ EvIdle
  /\ qpc = "scrape"
  /\ qn \in 1..MaxPipe
  /\ qi = 1
  /\ qkept = <<>>
  /\ qnew = <<>>
  /\ qseen \in SUBSET (1..qn)
  /\ qremote \in SUBSET (1..qn)
  /\ qfly = 0
  /\ qlog = <<>>

PipeNext ==
  \/ PipeExtractStart
  \/ PipeExtractOk
  \/ PipeExtractFail
  \/ PipeFilter
  \/ PipeExistsStart
  \/ PipeSkip
  \/ PipeCreateStart
  \/ PipeCreateOk
  \/ PipeCreateFail
  \/ PipeReturn

SpecPipeline == PipeInit /\ [][PipeNext]_vars

\* C22 (as claimed): at most one external call is in flight, and for
\* consecutive records r, r + 1 of the listing that the run publishes, the
\* publish step of r starts before the extraction of r + 1.
C22_RecordAtATime ==
  /\ qfly <= 1
  /\ \A r \in 1..(qn - 1) :
       (Logged("exists", r) /\ Logged("extract", r + 1)) =>
         PosOf("exists", r) < PosOf("extract", r + 1)

\* C27 (as claimed): in createItems two requests for different records are
\* never next to each other without the delay between them, and when
\* createItems has returned there was one delay per record of the list.
C27_DelayAfterEveryRecord ==
  /\ \A k \in 1..(Len(qlog) - 1) :
       (IsRequest(qlog[k]) /\ IsRequest(qlog[k + 1])) =>
         qlog[k].arg = qlog[k + 1].arg
  /\ (qpc = "done" /\ qnew # <<>>) =>
       Len(EventsOf(qlog, "delay")) = Len(qnew)

(***************************************************************************)
(* The slug createItem writes and the slug itemExists looks for, in the    *)
(* two copies of the Webflow client: a record's item is created, then the  *)
(* existence check of the same record runs.                                *)
(***************************************************************************)
WebflowCopies == {"part_006", "part_007"}

\* fieldData.slug of createItem
CreateItemSlug(copy, r, off) ==
  IF copy = "part_006"
    THEN GenerateSlug(r.title)
    ELSE GenerateUniqueSlug(r.title, r.publishDate, off)

\* the slug itemExists compares with; the older createItems passes release.id
ItemExistsSlug(copy, r, off) ==
  IF copy = "part_006"
    THEN GenerateSlug(r.id)
    ELSE GenerateUniqueSlug(r.title, r.publishDate, off)

SlugDates ==
  {IsoText(2025, 6, 28), DmyText(2025, 6, 28), ListingText(2025, 6, 28)}
SlugReleases(off, nowDay) ==
  {WithContent(MakeRelease(RowTitle(i), d, off, nowDay)) :
     i \in 1..3, d \in SlugDates}

otherThanSlug == <<hostOffset, today, keyVars, listVars, cfgPublish, pubVars,
                   twiceVars, runVars, extVars, histVars, mainVars,
                   storeVars, parseVars, retryVars, pipeVars,
                   cleanVars, evVars>>

\* itemExists: the GET answers, the items are searched for the slug
SlugItemExistsOk ==
  /\ wpc \in {"start", "created"}
  /\ wfound' = SlugExists(witems, ItemExistsSlug(wvariant, wrelease, hostOffset))
  /\ wpc' = IF wpc = "start" THEN "fresh" ELSE "checked"
  /\ UNCHANGED <<wvariant, wrelease, witems>>
  /\ UNCHANGED otherThanSlug

\* itemExists: the GET fails, the catch returns false
SlugItemExistsFail ==
  /\ wpc \in {"start", "created"}
  /\ wfound' = FALSE
  /\ wpc' = IF wpc = "start" THEN "fresh" ELSE "unchecked"
  /\ UNCHANGED <<wvariant, wrelease, witems>>
  /\ UNCHANGED otherThanSlug

\* createItem: the POST stores the item
SlugCreateItem ==
  /\ wpc = "fresh"
  /\ ~wfound
  /\ witems' = Append(witems,
       [slug |-> CreateItemSlug(wvariant, wrelease, hostOffset)])
  /\ wpc' = "created"
  /\ UNCHANGED <<wvariant, wrelease, wfound>>
  /\ UNCHANGED otherThanSlug

SlugInit ==
  /\ hostOffset \in {0, 2}
  /\ today = FirstDay
  /\ KeyIdle
  /\ lpc = "off" /\ rows = <<>> /\ cutoff = <<>> /\ recent = <<>>
  /\ PubIdle
  /\ RunIdle
  /\ ExtIdle
  /\ HistIdle
  /\ MainIdle
  /\ StoreIdle
  /\ ParseIdle
  /\ RetryIdle
  /\ PipeIdle
  /\ CleanIdle
  /\ EvIdle
  /\ wpc = "start"
  /\ wvariant \in WebflowCopies
  /\ wrelease \in SlugReleases(hostOffset, today)
  /\ witems = <<>>
  /\ wfound = FALSE

SlugNext ==
  \/ SlugItemExistsOk
  \/ SlugItemExistsFail
  \/ SlugCreateItem

SpecSlugs == SlugInit /\ [][SlugNext]_vars

\* C28 (as claimed): the existence check that follows the creation of a
\* record's item finds it, the slug itemExists looks for being the slug
\* createItem has written for the record.
C28_SameSlug ==
  wpc = "checked" =>
    /\ wfound
    /\ ItemExistsSlug(wvariant, wrelease, hostOffset) =
         witems[Len(witems)].slug

\* C29 (as claimed): the fallback is returned for a record only after a
\* strategy was run for it, never straight from the call; the modal is
\* opened only for a record with a node id, and the page of release.url is
\* evaluated directly only for a record without one.
C29_StrategyByNodeRef ==
  [][/\ (/\ Len(withContent') > Len(withContent)
         /\ withContent'[Len(withContent')].kind = "fallback") =>
          epc # "call"
     /\ (epc = "goto" /\ epc' = "click") => ExtRecord.nodeId # <<>>
     /\ (epc = "goto" /\ epc' = "evaluate") => ExtRecord.nodeId = <<>>]_vars

\* C36 (as claimed): whatever the attempts argument, retry returns normally
\* only if some invocation of fn returned normally.
C36_RetryTotality ==
  tpc = "returned" => EventsOf(tlog, "ok") # <<>>

(***************************************************************************)
(* utils.js: cleanHtmlContent                                              *)
(***************************************************************************)
MaxHtml == 5
HtmlChars == {" ", "\n", ">", "<", "a"}
HtmlStrings == SeqsUpTo(HtmlChars, MaxHtml)

\* a rewrite that drops one character of each pair of whitespace characters
RECURSIVE CollapsePairs(_)
CollapsePairs(s) ==
  IF s = <<>> THEN <<>>
  ELSE IF IsSpace(Head(s)) /\ Len(s) > 1 /\ IsSpace(s[2])
    THEN <<" ">> \o CollapsePairs(Tail(Tail(s)))
    ELSE <<Head(s)>> \o CollapsePairs(Tail(s))

\* .replace(/\s+/g, ' ')
RECURSIVE CollapseWhitespace(_)
CollapseWhitespace(s) ==
  IF s = <<>> THEN <<>>
  ELSE IF IsSpace(Head(s))
    THEN <<" ">> \o CollapseWhitespace(TrimLeft(s))
    ELSE <<Head(s)>> \o CollapseWhitespace(Tail(s))

\* .replace(/>\s+</g, '><')
RECURSIVE CloseTagGaps(_)
CloseTagGaps(s) ==
  IF s = <<>> THEN <<>>
  ELSE LET rest == Tail(s)
           after == TrimLeft(rest)
       IN IF /\ Head(s) = ">"
             /\ rest # <<>> /\ IsSpace(Head(rest))
             /\ after # <<>> /\ Head(after) = "<"
            THEN <<">", "<">> \o CloseTagGaps(Tail(after))
            ELSE <<Head(s)>> \o CloseTagGaps(rest)

CleanHtmlContent(h) == Trim(CloseTagGaps(CollapseWhitespace(h)))

otherThanClean == <<hostOffset, today, keyVars, listVars, cfgPublish, pubVars,
                    twiceVars, runVars, extVars, histVars, mainVars,
                    storeVars, parseVars, retryVars, pipeVars, slugVars,
                   evVars>>

\* cleanHtmlContent(html)
CleanFirst ==
  /\ hpc = "start"
  /\ once' = CleanHtmlContent(html)
  /\ hpc' = "cleaned"
  /\ UNCHANGED <<html, twice>>
  /\ UNCHANGED otherThanClean

\* cleanHtmlContent of the cleaned string
CleanAgain ==
  /\ hpc = "cleaned"
  /\ twice' = CleanHtmlContent(once)
  /\ hpc' = "again"
  /\ UNCHANGED <<html, once>>
  /\ UNCHANGED otherThanClean

CleanInit ==
  /\ hostOffset = 0
  /\ today = FirstDay
  /\ KeyIdle
  /\ lpc = "off" /\ rows = <<>> /\ cutoff = <<>> /\ recent = <<>>
  /\ PubIdle
  /\ RunIdle
  /\ ExtIdle
  /\ HistIdle
  /\ MainIdle
  /\ StoreIdle
  /\ ParseIdle
  /\ RetryIdle
  /\ PipeIdle
  /\ SlugIdle
  /\ EvIdle
  /\ hpc = "start"
  /\ html \in HtmlStrings
  /\ once = <<>>
  /\ twice = <<>>

CleanNext ==
  \/ CleanFirst
  \/ CleanAgain

SpecClean == CleanInit /\ [][CleanNext]_vars

\* C31: cleaning an already cleaned string changes nothing.
C31_CleanIdempotent ==
  hpc = "again" => twice = once

\* a string with a whitespace run, a gap between tags and outer whitespace
\* was cleaned twice
C31_Witness ==
  /\ hpc = "again"
  /\ html = <<" ", ">", "\n", " ", "<">>
  /\ once = <<">", "<">>
  /\ twice = once

\* C32: without "publish immediately" every item is created as a draft and
\* no publish call is issued; with it, a successful create is followed at
\* once by the publish call for the new item's id, for the same record, and
\* a record is counted as created only when that call has succeeded.
C32_DraftMode ==
  [][/\ ~cfgPublish =>
          /\ cpc' # "publish"
          /\ \A k \in 1..Len(remote') :
               remote'[k].isDraft /\ ~remote'[k].published
     /\ (cfgPublish /\ Len(remote') > Len(remote)) =>
          /\ cpc' = "publish"
          /\ createdItem'.id = remote'[Len(remote')].id
          /\ idx' = idx
     /\ (cfgPublish /\ Len(results'.created) > Len(results.created)) =>
          /\ cpc = "publish"
          /\ remote'[createdItem.id].published]_vars

\* with "publish immediately" the first record's item is published and the
\* publish call for the second record's item is under way
C32_Witness ==
  /\ cfgPublish
  /\ cpc = "publish"
  /\ idx = 2
  /\ Len(results.created) = 1
  /\ remote[results.created[1].webflowItem.id].published
  /\ createdItem.id = Len(remote)

AllResults ==
  CreatedReleases \o results.skipped \o
    [k \in 1..Len(results.errors) |-> results.errors[k].release]

\* C33: createItems always returns, and while it runs every record it has
\* dealt with is in exactly one of created, skipped and errors, so at the
\* return the three lengths add up to the number of input records.
C33_ResultPartition ==
  cpc \notin {"off", "idle"} =>
    /\ cpc \in {"exists", "post", "publish", "returned"}
    /\ Len(AllResults) =
         (IF cpc = "returned" THEN Len(pressReleases) ELSE idx - 1)
    /\ \A i \in 1..Len(AllResults) :
         Cardinality({k \in 1..Len(AllResults) :
                        AllResults[k] = pressReleases[i]}) = 1

\* a call on two records returned with one created and one in errors
C33_Witness ==
  /\ cpc = "returned"
  /\ Len(pressReleases) = 2
  /\ Len(results.created) = 1
  /\ Len(results.errors) = 1
  /\ results.skipped = <<>>
  /\ results.errors[1].release = pressReleases[2]

\* C34: in the store file, whatever runs have written it, stats.totalProcessed
\* is the number of entries of processedReleases.
C34_CounterConsistent ==
  disk.present =>
    disk.store.stats.totalProcessed = Len(disk.store.processedReleases)

\* two runs have each added an entry to the store file
C34_Witness ==
  /\ disk.present
  /\ disk.store.stats.totalProcessed = 2
  /\ Len(disk.store.processedReleases) = 2
  /\ disk.store.processedReleases[1].processedAt #
       disk.store.processedReleases[2].processedAt

\* C35 (as claimed): in the store file no two entries of processedReleases
\* have the same id.
C35_UniqueHistoryKeys ==
  disk.present =>
    \A i, j \in 1..Len(disk.store.processedReleases) :
      i # j => disk.store.processedReleases[i].id #
                 disk.store.processedReleases[j].id

(***************************************************************************)
(* Runs repeated on an unchanged listing, inside the window, with every    *)
(* request answered and the store file readable and writable.  The list    *)
(* fetchPressReleaseList returns (filtered by the cutoff, sorted) has n    *)
(* records, numbered in its order; the first two may have an item already *)
(* (an earlier run created it and ended without saving).                  *)
(***************************************************************************)
MaxListed == 11
TestLimit == 3

\* const limit = testMode ? 3 : 10
RunLimit(test) == IF test THEN TestLimit ELSE Limit

ListedRelease(i) == [id |-> i, title |-> i]
Listed(n) == [i \in 1..n |-> ListedRelease(i)]

otherThanEv == <<hostOffset, today, keyVars, listVars, cfgPublish, pubVars,
                 twiceVars, runVars, extVars, histVars, mainVars,
                 storeVars, parseVars, retryVars, pipeVars, slugVars,
                 cleanVars>>

\* run(): the store is loaded, getLatestReleases(limit) slices the list,
\* filterNewReleases drops the stored records
EvStart ==
  /\ vpc = "idle"
  /\ vbatch' = FilterNewReleases(FirstN(vlist, RunLimit(vtest)), vstore)
  /\ vpc' = "filtered"
  /\ UNCHANGED <<vtest, vlist, vi, vres, vstore, vremote>>
  /\ UNCHANGED otherThanEv

\* nothing is new: run() returns without saving
EvReturn ==
  /\ vpc = "filtered"
  /\ vbatch = <<>>
  /\ vpc' = "idle"
  /\ UNCHANGED <<vtest, vlist, vbatch, vi, vres, vstore, vremote>>
  /\ UNCHANGED otherThanEv

\* createItems(newReleases) is called
EvCall ==
  /\ vpc = "filtered"
  /\ vbatch # <<>>
  /\ vpc' = "publish"
  /\ vi' = 1
  /\ vres' = NoResults
  /\ UNCHANGED <<vtest, vlist, vbatch, vstore, vremote>>
  /\ UNCHANGED otherThanEv

\* createItems: the record at hand has an item and is skipped
EvSkip ==
  /\ vpc = "publish"
  /\ vi <= Len(vbatch)
  /\ vbatch[vi].id \in vremote
  /\ vres' = [vres EXCEPT !.skipped = Append(@, vbatch[vi])]
  /\ vi' = vi + 1
  /\ UNCHANGED <<vpc, vtest, vlist, vbatch, vstore, vremote>>
  /\ UNCHANGED otherThanEv

\* createItems: the record at hand has no item and one is created
EvCreate ==
  /\ vpc = "publish"
  /\ vi <= Len(vbatch)
  /\ vbatch[vi].id \notin vremote
  /\ vremote' = vremote \cup {vbatch[vi].id}
  /\ vres' = [vres EXCEPT !.created =
       Append(@, [release |-> vbatch[vi],
                  webflowItem |-> [id |-> Cardinality(vremote) + 1]])]
  /\ vi' = vi + 1
  /\ UNCHANGED <<vpc, vtest, vlist, vbatch, vstore>>
  /\ UNCHANGED otherThanEv

\* createItems has returned: the updated store is saved and the run ends
EvPersist ==
  /\ vpc = "publish"
  /\ vi > Len(vbatch)
  /\ vstore' = UpdatedStore(vstore, vres, today)
  /\ vpc' = "idle"
  /\ vbatch' = <<>>
  /\ vi' = 0
  /\ vres' = NoResults
  /\ UNCHANGED <<vtest, vlist, vremote>>
  /\ UNCHANGED otherThanEv

EvInit ==
  /\ hostOffset = 0
  /\ today = FirstDay
  /\ KeyIdle
  /\ lpc = "off" /\ rows = <<>> /\ cutoff = <<>> /\ recent = <<>>
  /\ PubIdle
  /\ RunIdle
  /\ ExtIdle
  /\ HistIdle
  /\ MainIdle
  /\ StoreIdle
  /\ ParseIdle
  /\ RetryIdle
  /\ PipeIdle
  /\ SlugIdle
  /\ CleanIdle
  /\ vpc = "idle"
  /\ vtest \in BOOLEAN
  /\ \E n \in 1..MaxListed : vlist = Listed(n)
  /\ vbatch = <<>>
  /\ vi = 0
  /\ vres = NoResults
  /\ vstore = DefaultStore
  /\ vremote \in SUBSET {1, 2}

EvNext ==
  \/ EvStart
  \/ EvReturn
  \/ EvCall
  \/ EvSkip
  \/ EvCreate
  \/ EvPersist

\* runs are started again and again and each goes on to its end
SpecEventual == EvInit /\ [][EvNext]_vars /\ WF_vars(EvNext)

\* C37 (as claimed): every record of the list is eventually in
\* processedReleases or has a remote item, whatever the length of the list.
C37_EventualPublication ==
  <>(\A k \in 1..Len(vlist) :
       vlist[k].id \in StoreIds(vstore) \/ vlist[k].id \in vremote)

============================================================================
